---------------------------- MODULE Spec2Model ----------------------------
(***************************************************************************)
(* conZero-Jet: the ASPEP/MCP motor-control client (hardware/uart_manager)  *)
(* and the parts of the touchscreen UI (ui_handlers/conzero_jet_ui) that    *)
(* drive it.                                                                *)
(*                                                                          *)
(* A 32-bit link word is kept as its four little-endian bytes, the form in  *)
(* which it travels (word.to_bytes(4,'little') / int.from_bytes(..)): the   *)
(* model's integers are 32-bit signed and cannot hold a word whose CRC      *)
(* nibble is 8 or more.                                                     *)
(***************************************************************************)
EXTENDS Integers, Sequences, FiniteSets, TLC

None == "None"

(***************************************************************************)
(* Bit arithmetic on naturals: Python's ^, & and | .                        *)
(***************************************************************************)
RECURSIVE BitXor(_, _)
BitXor(a, b) ==
  IF a = 0 THEN b
  ELSE IF b = 0 THEN a
  ELSE (((a % 2) + (b % 2)) % 2) + 2 * BitXor(a \div 2, b \div 2)

RECURSIVE BitAnd(_, _)
BitAnd(a, b) ==
  IF a = 0 \/ b = 0 THEN 0
  ELSE ((a % 2) * (b % 2)) + 2 * BitAnd(a \div 2, b \div 2)

RECURSIVE BitOr(_, _)
BitOr(a, b) ==
  IF a = 0 THEN b
  ELSE IF b = 0 THEN a
  ELSE (IF a % 2 = 1 \/ b % 2 = 1 THEN 1 ELSE 0) + 2 * BitOr(a \div 2, b \div 2)

Min(a, b) == IF a <= b THEN a ELSE b

(***************************************************************************)
(* ASPEP packet types and MCP command ids.                                  *)
(***************************************************************************)
TYPE_SILENT == 1
TYPE_BEACON == 5
TYPE_PING == 6
TYPE_ERROR == 7
TYPE_DATA == 9
TYPE_ACK == 10
TYPE_NACK == 15

SET_DATA_ELEMENT == 8
GET_DATA_ELEMENT == 16
START_MOTOR == 24
STOP_MOTOR == 32
FAULT_ACK == 56
MCP_CMD_WRITE_REG == 8
MOTOR_MASK == 7

(***************************************************************************)
(* CRC4 lookup tables (index 0 of the source is index 1 here).              *)
(***************************************************************************)
CRC4_Lookup8 ==
  << 0, 2, 4, 6, 8, 10, 12, 14, 7, 5, 3, 1, 15, 13, 11, 9,
     7, 5, 3, 1, 15, 13, 11, 9, 0, 2, 4, 6, 8, 10, 12, 14,
     14, 12, 10, 8, 6, 4, 2, 0, 9, 11, 13, 15, 1, 3, 5, 7,
     9, 11, 13, 15, 1, 3, 5, 7, 14, 12, 10, 8, 6, 4, 2, 0,
     11, 9, 15, 13, 3, 1, 7, 5, 12, 14, 8, 10, 4, 6, 0, 2,
     12, 14, 8, 10, 4, 6, 0, 2, 11, 9, 15, 13, 3, 1, 7, 5,
     5, 7, 1, 3, 13, 15, 9, 11, 2, 0, 6, 4, 10, 8, 14, 12,
     2, 0, 6, 4, 10, 8, 14, 12, 5, 7, 1, 3, 13, 15, 9, 11,
     1, 3, 5, 7, 9, 11, 13, 15, 6, 4, 2, 0, 14, 12, 10, 8,
     6, 4, 2, 0, 14, 12, 10, 8, 1, 3, 5, 7, 9, 11, 13, 15,
     15, 13, 11, 9, 7, 5, 3, 1, 8, 10, 12, 14, 0, 2, 4, 6,
     8, 10, 12, 14, 0, 2, 4, 6, 15, 13, 11, 9, 7, 5, 3, 1,
     10, 8, 14, 12, 2, 0, 6, 4, 13, 15, 9, 11, 5, 7, 1, 3,
     13, 15, 9, 11, 5, 7, 1, 3, 10, 8, 14, 12, 2, 0, 6, 4,
     4, 6, 0, 2, 12, 14, 8, 10, 3, 1, 7, 5, 11, 9, 15, 13,
     3, 1, 7, 5, 11, 9, 15, 13, 4, 6, 0, 2, 12, 14, 8, 10 >>

CRC4_Lookup4 ==
  << 0, 7, 14, 9, 11, 12, 5, 2, 1, 6, 15, 8, 10, 13, 4, 3 >>

Lookup8(x) == CRC4_Lookup8[x + 1]

Lookup4(x) == CRC4_Lookup4[x + 1]

(***************************************************************************)
(* Frame codec.                                                             *)
(***************************************************************************)
\* compute_header_crc with the nibble stage run through the byte table
compute_header_crc_byte_table(lower28) ==
  LET h  == lower28 % 268435456
      c1 == Lookup8(BitXor(0, h % 256))
      c2 == Lookup8(BitXor(c1, (h \div 256) % 256))
      c3 == Lookup8(BitXor(c2, (h \div 65536) % 256))
      c4 == Lookup8(BitXor(c3, (h \div 16777216) % 16))
  IN  c4 % 16

compute_header_crc(lower28) ==
  LET h  == lower28 % 268435456
      c1 == Lookup8(BitXor(0, h % 256))
      c2 == Lookup8(BitXor(c1, (h \div 256) % 256))
      c3 == Lookup8(BitXor(c2, (h \div 65536) % 256))
      c4 == Lookup4(BitXor(c3, (h \div 16777216) % 16))
  IN  c4 % 16

\* int.from_bytes(b, 'little') seen as its four bytes: a short read is
\* zero-extended
FromBytesLE(b) == [i \in 1..4 |-> IF i <= Len(b) THEN b[i] ELSE 0]

\* check_header_crc that looks at three bits of the remainder only
check_header_crc_three_bits(w) ==
  LET c1 == Lookup8(BitXor(0, w[1]))
      c2 == Lookup8(BitXor(c1, w[2]))
      c3 == Lookup8(BitXor(c2, w[3]))
      c4 == Lookup8(BitXor(c3, w[4]))
  IN  c4 % 8 = 0

\* check_header_crc on the four bytes of word32
check_header_crc(w) ==
  LET c1 == Lookup8(BitXor(0, w[1]))
      c2 == Lookup8(BitXor(c1, w[2]))
      c3 == Lookup8(BitXor(c2, w[3]))
      c4 == Lookup8(BitXor(c3, w[4]))
  IN  c4 = 0

\* ((crc << 28) | l28).to_bytes(4, 'little')
WordBytes(l28, crc) ==
  << l28 % 256, (l28 \div 256) % 256, (l28 \div 65536) % 256,
     BitOr((l28 \div 16777216) % 16, crc * 16) >>

\* w & 0x0FFFFFFF of a word held as bytes
Lower28(w) == w[1] + 256 * w[2] + 65536 * w[3] + 16777216 * (w[4] % 16)

LengthLimit == 8191

\* build_data_header that lets 0x2000 through
build_data_header_limit_inclusive(length) ==
  IF length > LengthLimit + 1 THEN << >>
  ELSE LET l28 == BitOr(length * 16, TYPE_DATA)
       IN  WordBytes(l28, compute_header_crc(l28))

\* build_data_header; << >> (no header) stands for the ValueError
build_data_header(length) ==
  IF length > LengthLimit THEN << >>
  ELSE LET l28 == BitOr(length * 16, TYPE_DATA)
       IN  WordBytes(l28, compute_header_crc(l28))

\* Capabilities.build_lower28
build_lower28(caps) ==
  BitOr(BitOr(BitOr(BitOr(BitOr(TYPE_BEACON,
        (caps.version % 8) * 16),
        (caps.data_crc % 2) * 128),
        (caps.rx_max % 64) * 256),
        (caps.txs_max % 128) * 16384),
        (caps.txa_max % 128) * 2097152)

\* Capabilities.from_lower28
from_lower28(l28) ==
  [version  |-> (l28 \div 16) % 8,
   data_crc |-> (l28 \div 128) % 2,
   rx_max   |-> (l28 \div 256) % 64,
   txs_max  |-> (l28 \div 16384) % 128,
   txa_max  |-> (l28 \div 2097152) % 128]

build_beacon(caps) ==
  LET l28 == build_lower28(caps)
  IN  WordBytes(l28, compute_header_crc(l28))

\* build_ping: ip_id and packet_number are 0 for the life of the client
build_ping ==
  LET l28 == BitOr(BitOr(TYPE_PING, (0 % 16) * 256), (0 % 65536) * 4096)
  IN  WordBytes(l28, compute_header_crc(l28))

DefaultCaps ==
  [version |-> 0, data_crc |-> 0, rx_max |-> 28, txs_max |-> 7, txa_max |-> 1]


(***************************************************************************)
(* ASPEPClient: state.                                                      *)
(*   Optional[int] values are sequences of length at most one.              *)
(***************************************************************************)
VARIABLES
  connected,            \* self.connected
  ctrl_caps,            \* self.ctrl_caps
  perf_caps,            \* self.perf_caps: unset, the ctrl_caps object itself, or its own record
  last_data_payload,    \* self.last_data_payload
  last_speed_ref,       \* self._last_speed_ref
  acceleration_rpm_s,   \* self._acceleration_rpm_s
  op,                   \* the client call in progress and its position
  xch,                  \* the _send_data_command invocation in progress
  txLog,                \* frames written by the current or last client call
  hs,                   \* what the last handshake() invocation did
  last                  \* the last client call that returned

clientVars ==
  << connected, ctrl_caps, perf_caps, last_data_payload, last_speed_ref,
     acceleration_rpm_s, op, xch, txLog, hs, last >>

(***************************************************************************)
(* Header codec exercised on its own: the value handed to                   *)
(* compute_header_crc, the word built from it and the validator's verdict. *)
(***************************************************************************)
VARIABLES
  crc_v,                \* lower28 given to compute_header_crc
  crc_word,             \* the four bytes of v | (crc << 28), << >> before it is built
  crc_ok,               \* check_header_crc of the word: "unset", "True" or "False"
  crc_bit,              \* the bit of the word that was flipped, -1 before
  crc_flip_ok           \* check_header_crc of the word with that bit flipped

crcVars == << crc_v, crc_word, crc_ok, crc_bit, crc_flip_ok >>

(***************************************************************************)
(* build_data_header, and the writes of _send_data_command, against the    *)
(* length of the payload.                                                   *)
(***************************************************************************)
VARIABLES
  hd_len,               \* len(payload)
  hd_pc,                \* "idle", "built" (build_data_header returned) or "sent"
  hd_hdr,               \* the header returned, << >> when it raised
  hd_tx                 \* part and size of each frame _send_data_command wrote

hdrVars == << hd_len, hd_pc, hd_hdr, hd_tx >>

(***************************************************************************)
(* The ramp duration of set_speed_auto_ramp against the target, the last    *)
(* commanded speed and the acceleration.                                    *)
(***************************************************************************)
VARIABLES
  du_target,            \* target_rpm
  du_last,              \* self._last_speed_ref, << >> for None
  du_accel,             \* self._acceleration_rpm_s
  du_pc,                \* "idle", "noop" (speed unchanged) or "ramp"
  du_ms,                \* ramp_duration_ms handed to set_speed_ramp_raw
  du_raw                \* raw_data of set_speed_ramp_raw, << >> when pack raised

durVars == << du_target, du_last, du_accel, du_pc, du_ms, du_raw >>

(***************************************************************************)
(* _drain against a peer that may transmit at any time.                     *)
(***************************************************************************)
VARIABLES
  dr_caller,            \* "open" or "handshake"
  dr_pc,                \* "settle", "test", "read" or "returned"
  dr_waiting,           \* self.ser.in_waiting
  dr_discarded          \* bytes read and thrown away so far (capped)

drainVars == << dr_caller, dr_pc, dr_waiting, dr_discarded >>

(***************************************************************************)
(* percentage_to_rpm and rpm_to_percentage on their own.                    *)
(***************************************************************************)
VARIABLES
  sc_max,               \* self._max_speed_rpm
  sc_fn,                \* the conversion called
  sc_arg,               \* its argument
  sc_pc,                \* "idle" or "returned"
  sc_ret                \* the value returned

scaleVars == << sc_max, sc_fn, sc_arg, sc_pc, sc_ret >>

(***************************************************************************)
(* AdaptiveMotorPilot (src/uart_manager.py), the second client.            *)
(***************************************************************************)
VARIABLES
  ap_connected,    \* self.connected
  ap_name_cached,  \* self.name_cached, None as << >>
  ap_stack,        \* the frames of the running call, the innermost last
  ap_ret,          \* what the callee that just returned gave back, << >> if none
  ap_last          \* the outermost call: how it began, what it did, how it ended

pilotVars == << ap_connected, ap_name_cached, ap_stack, ap_ret, ap_last >>

\* fn: the method called; ret: << >> while it runs; sent: REQ_NAME frames
\* written; requests: request_name invocations made by ensure_link;
\* connected, cached: the fields when the call began
NoPilotCall == [fn |-> "none", ret |-> << >>, sent |-> 0, requests |-> 0,
                connected |-> FALSE, cached |-> FALSE]

\* __init__, lines 23-28
PilotInit ==
  /\ ap_connected = FALSE
  /\ ap_name_cached = << >>
  /\ ap_stack = << >>
  /\ ap_ret = << >>
  /\ ap_last = NoPilotCall

(***************************************************************************)
(* FaultMonitor (services/fault_service.py).                                *)
(***************************************************************************)
VARIABLES
  fm_current_faults,    \* self.current_faults
  fm_active_fault_list, \* self.active_fault_list
  fm_system_stalled,    \* self.system_stalled
  fm_notified,          \* arguments of the last on_fault_changed call, None as << >>
  fm_ret,               \* what the last update_faults returned, "none" before
  fm_call               \* the last call: its name, its argument, its callbacks

fmVars == << fm_current_faults, fm_active_fault_list, fm_system_stalled,
             fm_notified, fm_ret, fm_call >>

(***************************************************************************)
(* _read_header_sync exercised on its own against a serial byte stream.    *)
(***************************************************************************)
VARIABLES
  sy_garbage,           \* bytes on the line before the header
  sy_header,            \* the CRC-correct header that follows them
  sy_pos,               \* number of bytes ser.read has handed out
  sy_window,            \* window (bytearray)
  sy_pc,                \* "idle", "loop" or "done"
  sy_ret                \* returned bytes, << >> for b''

syncVars == << sy_garbage, sy_header, sy_pos, sy_window, sy_pc, sy_ret >>

(***************************************************************************)
(* JetUI: the fields the fault and pause handlers read and write.  Every    *)
(* handler runs to completion on the Tk main loop.                          *)
(***************************************************************************)
VARIABLES
  power_on,             \* self.power_on
  paused,               \* self.paused
  speed,                \* self.speed
  pre_pause_speed,      \* self._pre_pause_speed, << >> while the attribute is missing
  current_faults,       \* self.current_faults
  system_stalled,       \* self.system_stalled
  motor_ready,          \* self.motor_ready
  status,               \* self.status_label text
  resume_after,         \* root.after(500, self._resume_motor) is pending
  power_default_after,  \* self._power_default_id is pending
  ui_flow               \* what the last handler did, and the last fault read

uiVars ==
  << power_on, paused, speed, pre_pause_speed, current_faults, system_stalled,
     motor_ready, status, resume_after, power_default_after, ui_flow >>

(***************************************************************************)
(* The threads that call the client.  Tk runs its handlers one at a time on *)
(* the main loop; gpiozero runs when_pressed / when_released on a thread of *)
(* its own; the BLE thread only posts events to the main loop.              *)
(***************************************************************************)
VARIABLES
  thr,                  \* per thread: the handler it runs and how far its command got
  ble_posted            \* events posted with root.after(0, self._handle_ble_event, evt)

concVars == << thr, ble_posted >>

NoPacket == [type |-> -1, payload |-> << >>]

\* payloads a peer packet may carry
Payloads == { <<1>>, <<0, 0, 0, 0>>, <<2, 0, 0, 0>> }

\* what one _read_packet call can return
Packets ==
  { NoPacket }
  \cup { [type |-> t, payload |-> << >>] :
           t \in {TYPE_SILENT, TYPE_ERROR, TYPE_NACK, TYPE_ACK, TYPE_DATA, TYPE_PING} }
  \cup { [type |-> TYPE_DATA, payload |-> p] : p \in Payloads }
  \cup { [type |-> TYPE_ACK, payload |-> <<2, 0, 0, 0>>] }

\* capabilities a peer beacon may advertise
PeerCapsSet ==
  { [version |-> 0, data_crc |-> 0, rx_max |-> 16, txs_max |-> 7, txa_max |-> 2],
    [version |-> 0, data_crc |-> 0, rx_max |-> 63, txs_max |-> 3, txa_max |-> 1] }

\* a word with its lowest bit inverted
FlipBit0(w) == [w EXCEPT ![1] = BitXor(w[1], 1)]

\* what the 4-byte read after the local beacon can return
BeaconReplies ==
  { << >>, <<5, 28>>, build_ping }
  \cup { build_beacon(c) : c \in PeerCapsSet }
  \cup { FlipBit0(build_beacon(c)) : c \in PeerCapsSet }

\* what the 4-byte read after the PING can return
PongReplies == { << >>, build_ping, <<6>>, <<22, 0>>, build_beacon(DefaultCaps), <<0>> }

\* the handshake reads met by the calls of the command-level specification
FewBeaconReplies == { << >>, build_beacon([DefaultCaps EXCEPT !.rx_max = 16, !.txa_max = 2]) }

FewPongReplies == { << >>, build_ping }

PerfUnset == [kind |-> "unset", caps |-> DefaultCaps]

\* the Capabilities object self.perf_caps refers to
PerfCapsOf(pc, cc) == IF pc.kind = "own" THEN pc.caps ELSE cc

NoHs == [ran |-> FALSE, pre_connected |-> FALSE, ret |-> FALSE, tx |-> << >>,
         reads |-> 0, perf |-> << >>, pong |-> << >>]

\* the 4 bytes read after the local beacon are a CRC-valid BEACON (line 326)
ValidBeacon(perf) ==
  /\ perf # << >>
  /\ check_header_crc(FromBytesLE(perf))
  /\ (FromBytesLE(perf)[1] % 16) = TYPE_BEACON

\* a negotiation that adopts the peer's limits
NegotiateAdoptsPeer(cc, p) ==
  [cc EXCEPT !.rx_max = p.rx_max, !.txs_max = p.txs_max, !.txa_max = p.txa_max]

\* lines 331-333: self.ctrl_caps after the three min() assignments, p being
\* the object self.perf_caps refers to
Negotiate(cc, p) ==
  [cc EXCEPT !.rx_max  = Min(cc.rx_max, p.rx_max),
             !.txs_max = Min(cc.txs_max, p.txs_max),
             !.txa_max = Min(cc.txa_max, p.txa_max)]

(***************************************************************************)
(* handshake(), given what the two decisive reads return.  The result       *)
(* carries the fields the call leaves behind and what it wrote and read.    *)
(***************************************************************************)
\* lines 316-346 without the test of the PING reply
HandshakeRunNoPingCheck(cc, pc, perf, pong) ==
  LET beacon == [label |-> "BEACON", part |-> "H", bytes |-> build_beacon(cc)]
  IN IF perf = << >>
     THEN [ret |-> FALSE, connected |-> FALSE, ctrl_caps |-> cc, perf_caps |-> pc,
           tx |-> << beacon >>, reads |-> 1, perf |-> perf, pong |-> << >>]
     ELSE LET w    == FromBytesLE(perf)
              pc1  == IF check_header_crc(w) /\ (w[1] % 16) = TYPE_BEACON
                      THEN [kind |-> "own", caps |-> from_lower28(Lower28(w))]
                      ELSE [kind |-> "alias", caps |-> DefaultCaps]
              p    == PerfCapsOf(pc1, cc)
              cc1  == Negotiate(cc, p)
              echo == [label |-> "ECHO", part |-> "H",
                       bytes |-> build_beacon(PerfCapsOf(pc1, cc1))]
              ping == [label |-> "PING", part |-> "H", bytes |-> build_ping]
          IN [ret |-> TRUE, connected |-> TRUE, ctrl_caps |-> cc1, perf_caps |-> pc1,
              tx |-> << beacon, echo, ping >>, reads |-> 3,
              perf |-> perf, pong |-> pong]

\* lines 316-346: the handshake proper, from Disconnected
HandshakeRun(cc, pc, perf, pong) ==
  LET beacon == [label |-> "BEACON", part |-> "H", bytes |-> build_beacon(cc)]
  IN IF perf = << >>
     THEN [ret |-> FALSE, connected |-> FALSE, ctrl_caps |-> cc, perf_caps |-> pc,
           tx |-> << beacon >>, reads |-> 1, perf |-> perf, pong |-> << >>]
     ELSE LET w    == FromBytesLE(perf)
              pc1  == IF check_header_crc(w) /\ (w[1] % 16) = TYPE_BEACON
                      THEN [kind |-> "own", caps |-> from_lower28(Lower28(w))]
                      ELSE [kind |-> "alias", caps |-> DefaultCaps]
              p    == PerfCapsOf(pc1, cc)
              cc1  == Negotiate(cc, p)
              echo == [label |-> "ECHO", part |-> "H",
                       bytes |-> build_beacon(PerfCapsOf(pc1, cc1))]
              ping == [label |-> "PING", part |-> "H", bytes |-> build_ping]
              good == pong # << >> /\ (pong[1] % 16) = TYPE_PING
          IN [ret |-> good, connected |-> good, ctrl_caps |-> cc1, perf_caps |-> pc1,
              tx |-> << beacon, echo, ping >>, reads |-> 3,
              perf |-> perf, pong |-> pong]

\* handshake without the early return of lines 312-314
HandshakeNoEarlyReturn(conn, cc, pc, perf, pong) ==
  HandshakeRun(cc, pc, perf, pong)

\* handshake (lines 310-346)
Handshake(conn, cc, pc, perf, pong) ==
  IF conn
  THEN [ret |-> TRUE, connected |-> conn, ctrl_caps |-> cc, perf_caps |-> pc,
        tx |-> << >>, reads |-> 0, perf |-> << >>, pong |-> << >>]
  ELSE HandshakeRun(cc, pc, perf, pong)

(***************************************************************************)
(* _send_data_command: one invocation, one _read_packet result at a time.   *)
(***************************************************************************)
IdleXch ==
  [phase |-> "idle", label |-> "", payload |-> << >>, expect_data |-> FALSE,
   allow_ack_only |-> FALSE, ok |-> FALSE, lastPkt |-> NoPacket, why |-> "",
   after_silent |-> FALSE]

\* the writes of an invocation that sends its frames a second time
TxFramesResent(payload, label) ==
  LET hdr == build_data_header(Len(payload))
      once == << [label |-> label, part |-> "H", bytes |-> hdr],
                 [label |-> label, part |-> "P", bytes |-> payload] >>
  IN  IF hdr = << >> THEN << >> ELSE once \o once

\* the header and payload writes of _send_data_command (lines 387-393)
\* nothing is written when build_data_header raises
TxFrames(payload, label) ==
  LET hdr == build_data_header(Len(payload))
  IN  IF hdr = << >> THEN << >>
      ELSE << [label |-> label, part |-> "H", bytes |-> hdr] >>
           \o (IF payload # << >>
               THEN << [label |-> label, part |-> "P", bytes |-> payload] >>
               ELSE << >>)

\* the invocation right after its writes, about to read the first packet
StartXch(payload, label, expect_data, allow_ack_only) ==
  [phase |-> "first", label |-> label, payload |-> payload,
   expect_data |-> expect_data, allow_ack_only |-> allow_ack_only,
   ok |-> FALSE, lastPkt |-> NoPacket, why |-> "", after_silent |-> FALSE]

Done(x, pkt, ok, why) ==
  [x EXCEPT !.phase = "done", !.ok = ok, !.lastPkt = pkt, !.why = why]

\* lines 406-459 in which a NACK is not told apart from an empty ACK
FirstResponseNackAsAck(x, ldp, pkt) ==
  IF pkt.type = TYPE_ERROR
  THEN [x |-> Done(x, pkt, FALSE, "ERROR"), ldp |-> ldp]
  ELSE IF pkt.type = TYPE_DATA
  THEN [x |-> Done(x, pkt, TRUE, "DATA"), ldp |-> pkt.payload]
  ELSE IF pkt.type = TYPE_ACK \/ pkt.type = TYPE_NACK
  THEN IF pkt.payload # << >>
       THEN [x |-> Done(x, pkt, TRUE, "ACK+payload"), ldp |-> pkt.payload]
       ELSE IF ~x.expect_data
       THEN [x |-> Done(x, pkt, TRUE, "ACK"), ldp |-> ldp]
       ELSE [x |-> [x EXCEPT !.phase = "poll", !.lastPkt = pkt], ldp |-> ldp]
  ELSE [x |-> Done(x, pkt, FALSE, "Unexpected type"), ldp |-> ldp]

\* lines 406-459: the handling of the first response that is not SILENT
\* (or of the packet read after one SILENT)
FirstResponse(x, ldp, pkt) ==
  IF pkt.type = TYPE_ERROR
  THEN [x |-> Done(x, pkt, FALSE, "ERROR"), ldp |-> ldp]
  ELSE IF pkt.type = TYPE_NACK
  THEN [x |-> Done(x, pkt, FALSE, "NACK"), ldp |-> ldp]
  ELSE IF pkt.type = TYPE_DATA
  THEN [x |-> Done(x, pkt, TRUE, "DATA"), ldp |-> pkt.payload]
  ELSE IF pkt.type = TYPE_ACK
  THEN IF pkt.payload # << >>
       THEN [x |-> Done(x, pkt, TRUE, "ACK+payload"), ldp |-> pkt.payload]
       ELSE IF ~x.expect_data
       THEN [x |-> Done(x, pkt, TRUE, "ACK"), ldp |-> ldp]
       ELSE [x |-> [x EXCEPT !.phase = "poll", !.lastPkt = pkt], ldp |-> ldp]
  ELSE [x |-> Done(x, pkt, FALSE, "Unexpected type"), ldp |-> ldp]

\* lines 431-448 in which a SILENT packet ends the loop as an unexpected type
PollResponseSilentFails(x, ldp, pkt) ==
  IF pkt = NoPacket
  THEN [x |-> [x EXCEPT !.lastPkt = pkt], ldp |-> ldp]
  ELSE IF pkt.type = TYPE_SILENT
  THEN [x |-> Done(x, pkt, FALSE, "Unexpected type"), ldp |-> ldp]
  ELSE IF pkt.type = TYPE_ERROR
  THEN [x |-> Done(x, pkt, FALSE, "Late ERROR"), ldp |-> ldp]
  ELSE IF pkt.type = TYPE_DATA
  THEN [x |-> Done(x, pkt, TRUE, "DATA"), ldp |-> pkt.payload]
  ELSE IF pkt.type = TYPE_ACK /\ pkt.payload # << >>
  THEN [x |-> Done(x, pkt, TRUE, "ACK+payload"), ldp |-> pkt.payload]
  ELSE IF pkt.type = TYPE_NACK
  THEN [x |-> Done(x, pkt, FALSE, "Late NACK"), ldp |-> ldp]
  ELSE [x |-> [x EXCEPT !.lastPkt = pkt], ldp |-> ldp]

\* lines 431-448: one iteration of the ACK-then-poll loop
PollResponse(x, ldp, pkt) ==
  IF pkt = NoPacket \/ pkt.type = TYPE_SILENT
  THEN [x |-> [x EXCEPT !.lastPkt = pkt], ldp |-> ldp]
  ELSE IF pkt.type = TYPE_ERROR
  THEN [x |-> Done(x, pkt, FALSE, "Late ERROR"), ldp |-> ldp]
  ELSE IF pkt.type = TYPE_DATA
  THEN [x |-> Done(x, pkt, TRUE, "DATA"), ldp |-> pkt.payload]
  ELSE IF pkt.type = TYPE_ACK /\ pkt.payload # << >>
  THEN [x |-> Done(x, pkt, TRUE, "ACK+payload"), ldp |-> pkt.payload]
  ELSE IF pkt.type = TYPE_NACK
  THEN [x |-> Done(x, pkt, FALSE, "Late NACK"), ldp |-> ldp]
  ELSE [x |-> [x EXCEPT !.lastPkt = pkt], ldp |-> ldp]

\* lines 395-459 in which the packet after a SILENT is handled as the poll
\* loop handles its packets
ReadStepSecondAsPoll(x, ldp, pkt) ==
  IF x.phase = "first"
  THEN IF pkt = NoPacket
       THEN [x |-> Done(x, pkt, FALSE, "No response"), ldp |-> ldp]
       ELSE IF pkt.type = TYPE_SILENT
       THEN [x |-> [x EXCEPT !.phase = "second", !.lastPkt = pkt,
                             !.after_silent = TRUE], ldp |-> ldp]
       ELSE FirstResponse(x, ldp, pkt)
  ELSE IF x.phase = "second"
  THEN IF pkt = NoPacket
       THEN [x |-> Done(x, pkt, FALSE, "No response after SILENT"), ldp |-> ldp]
       ELSE PollResponse(x, ldp, pkt)
  ELSE PollResponse(x, ldp, pkt)

\* lines 395-459: what the invocation does with the next _read_packet result
ReadStep(x, ldp, pkt) ==
  IF x.phase = "first"
  THEN IF pkt = NoPacket
       THEN [x |-> Done(x, pkt, FALSE, "No response"), ldp |-> ldp]
       ELSE IF pkt.type = TYPE_SILENT
       THEN [x |-> [x EXCEPT !.phase = "second", !.lastPkt = pkt,
                             !.after_silent = TRUE], ldp |-> ldp]
       ELSE FirstResponse(x, ldp, pkt)
  ELSE IF x.phase = "second"
  THEN IF pkt = NoPacket
       THEN [x |-> Done(x, pkt, FALSE, "No response after SILENT"), ldp |-> ldp]
       ELSE FirstResponse(x, ldp, pkt)
  ELSE PollResponse(x, ldp, pkt)

\* lines 450-456 without the allow_ack_only test
PollExpiredAlwaysOk(x, ldp) ==
  [x |-> Done(x, x.lastPkt, TRUE, "ACK only"), ldp |-> << >>]

\* lines 450-456: data_timeout has passed in the poll loop
PollExpired(x, ldp) ==
  IF x.allow_ack_only
  THEN [x |-> Done(x, x.lastPkt, TRUE, "ACK only"), ldp |-> << >>]
  ELSE [x |-> Done(x, x.lastPkt, FALSE, "Timeout waiting for DATA"), ldp |-> ldp]

XchRead(pkt) ==
  /\ xch.phase \in {"first", "second", "poll"}
  /\ LET r == ReadStep(xch, last_data_payload, pkt)
     IN /\ xch' = r.x
        /\ last_data_payload' = r.ldp
  /\ UNCHANGED << connected, ctrl_caps, perf_caps, last_speed_ref,
                  acceleration_rpm_s, op, txLog, hs, last >>

\* a poll loop that tests its deadline only after a read that got nothing
XchPollTimeoutOnlyWhenQuiet ==
  /\ xch.phase = "poll"
  /\ xch.lastPkt = NoPacket
  /\ LET r == PollExpired(xch, last_data_payload)
     IN /\ xch' = r.x
        /\ last_data_payload' = r.ldp
  /\ UNCHANGED << connected, ctrl_caps, perf_caps, last_speed_ref,
                  acceleration_rpm_s, op, txLog, hs, last >>

\* line 430: the test `time.time() < end` fails once data_timeout has passed
XchPollTimeout ==
  /\ xch.phase = "poll"
  /\ LET r == PollExpired(xch, last_data_payload)
     IN /\ xch' = r.x
        /\ last_data_payload' = r.ldp
  /\ UNCHANGED << connected, ctrl_caps, perf_caps, last_speed_ref,
                  acceleration_rpm_s, op, txLog, hs, last >>


(***************************************************************************)
(* Command payloads.                                                        *)
(***************************************************************************)
\* x.to_bytes(2, 'little') and struct '<H'
U16LE(x) == << x % 256, (x \div 256) % 256 >>

\* struct '<i' (two's complement for a negative value)
I32LE(v) ==
  << v % 256, (v \div 256) % 256, (v \div 65536) % 256, (v \div 16777216) % 256 >>

\* int.from_bytes(b[:4], 'little', signed=True) and struct '<i' read back
I32Value(b) ==
  b[1] + 256 * b[2] + 65536 * b[3]
    + 16777216 * (IF b[4] >= 128 THEN b[4] - 256 ELSE b[4])

MC_REG_SPEED_REF_BASE == BitOr(2 * 64, 24)

MC_REG_SPEED_MEAS_BASE == BitOr(1 * 64, 24)

MC_REG_FAULTS_BASE == BitOr(0 * 64, 24)

MC_REG_SPEED_RAMP_BASE == BitOr(6 * 64, 40)

CMD_NAME == 17

CMD_STOP_RAMP == 22

\* bytes([motor_index, CMD_STOP_RAMP])
StopRampPayload(motor_index) == << motor_index, CMD_STOP_RAMP >>

\* the formats list of request_name
NameFormats ==
  << U16LE(CMD_NAME) \o U16LE(225), U16LE(CMD_NAME), << 0 >> \o U16LE(CMD_NAME) >>

NameLabels == << "Name-F1", "Name-F2", "Name-F3" >>

StartPayload(motor_index) == U16LE(BitOr(START_MOTOR, BitAnd(motor_index, MOTOR_MASK)))

StopPayload(motor_index) == U16LE(BitOr(STOP_MOTOR, BitAnd(motor_index, MOTOR_MASK)))

FaultAckPayload(motor_index) == U16LE(BitOr(FAULT_ACK, BitAnd(motor_index, MOTOR_MASK)))

ReadFaultsPayload(motor_index) ==
  U16LE(BitOr(GET_DATA_ELEMENT, BitAnd(motor_index, MOTOR_MASK)))
  \o U16LE(BitOr(MC_REG_FAULTS_BASE, BitAnd(motor_index, MOTOR_MASK)))

\* poll_speed lines 726-735
PollSpeedPayload(motor_index) ==
  U16LE(BitOr(GET_DATA_ELEMENT, BitAnd(motor_index, MOTOR_MASK)))
  \o U16LE(BitOr(MC_REG_SPEED_MEAS_BASE, BitAnd(motor_index, MOTOR_MASK)))

DurationLimit == 65535

\* struct.pack('<iH', target_rpm, ramp_duration_ms) succeeds
RawPackOk(target_rpm, ramp_duration_ms) ==
  /\ ramp_duration_ms >= 0
  /\ ramp_duration_ms <= DurationLimit

\* the three payload formats of set_speed_ramp_raw (lines 586-608)
RampFormats(target_rpm, ramp_duration_ms, motor_index) ==
  LET speed_ramp_reg == BitOr(MC_REG_SPEED_RAMP_BASE, BitAnd(motor_index, MOTOR_MASK))
      raw_data       == I32LE(target_rpm) \o U16LE(ramp_duration_ms)
      raw_data_size  == Len(raw_data)
      mcp_cmd        == BitOr(MCP_CMD_WRITE_REG, BitAnd(motor_index, MOTOR_MASK))
  IN << U16LE(mcp_cmd) \o U16LE(speed_ramp_reg) \o U16LE(raw_data_size) \o raw_data,
        << motor_index >> \o U16LE(MCP_CMD_WRITE_REG) \o U16LE(speed_ramp_reg)
           \o U16LE(raw_data_size) \o raw_data,
        (U16LE(mcp_cmd) \o U16LE(speed_ramp_reg)) \o U16LE(raw_data_size) \o raw_data >>

\* the three payload formats of _set_speed_instant (lines 662-676)
InstantFormats(rpm, motor_index) ==
  LET wire_motor    == IF motor_index - 1 > 0 THEN motor_index - 1 ELSE 0
      data4         == I32LE(rpm)
      speed_ref_reg == BitOr(MC_REG_SPEED_REF_BASE, BitAnd(motor_index, MOTOR_MASK))
      reg_lo        == speed_ref_reg % 256
      reg_hi        == (speed_ref_reg \div 256) % 256
  IN << << MCP_CMD_WRITE_REG, wire_motor, reg_lo, reg_hi >> \o data4,
        << wire_motor, MCP_CMD_WRITE_REG, reg_lo, reg_hi >> \o data4,
        << wire_motor, MCP_CMD_WRITE_REG, 1, reg_lo, reg_hi >> \o data4 >>

Abs(x) == IF x < 0 THEN 0 - x ELSE x

\* self._last_speed_ref or 0
OrZero(opt) == IF opt = << >> THEN 0 ELSE opt[1]

STEP_SIZE == 500

MIN_RAMP_MS == 500

\* self._max_speed_rpm after construction (line 226)
DEFAULT_MAX_SPEED_RPM == 4800

(***************************************************************************)
(* Python float arithmetic (IEEE 754 binary64, round to nearest, ties to    *)
(* even) on positive values.  A float is its 53 significand bits, most      *)
(* significant first, and the exponent e of the leading bit: the value is   *)
(* the sum of m[i] * 2^(e + 1 - i).                                         *)
(***************************************************************************)
MANT_DIG == 53

RECURSIVE TwoTo(_)
TwoTo(n) == IF n = 0 THEN 1 ELSE 2 * TwoTo(n - 1)

\* n more quotient bits of r / D for r < D, followed by the last remainder
RECURSIVE DivSteps(_, _, _)
DivSteps(r, D, n) ==
  IF n = 0 THEN << r >>
  ELSE LET b == IF 2 * r >= D THEN 1 ELSE 0
       IN  << b >> \o DivSteps(2 * r - b * D, D, n - 1)

\* the value of a bit string, most significant bit first
RECURSIVE BitsValue(_)
BitsValue(bits) ==
  IF bits = << >> THEN 0
  ELSE 2 * BitsValue(SubSeq(bits, 1, Len(bits) - 1)) + bits[Len(bits)]

\* bits + 1 in the last place; all ones carry into the exponent
NextUp(bits, e) ==
  LET zeros == { i \in 1..Len(bits) : bits[i] = 0 }
  IN  IF zeros = {}
      THEN [m |-> [i \in 1..Len(bits) |-> IF i = 1 THEN 1 ELSE 0], e |-> e + 1]
      ELSE LET j == CHOOSE i \in zeros : \A k \in zeros : k <= i
           IN  [m |-> [i \in 1..Len(bits) |->
                         IF i < j THEN bits[i] ELSE IF i = j THEN 1 ELSE 0],
                e |-> e]

\* round to nearest, ties to even: guard is the first bit dropped, sticky
\* tells whether anything non-zero follows it
RoundNearestEven(bits, guard, sticky, e) ==
  IF guard = 1 /\ (sticky \/ bits[Len(bits)] = 1)
  THEN NextUp(bits, e)
  ELSE [m |-> bits, e |-> e]

\* the exponent of the leading bit of d / a, for d and a below 2^14
QuotientExponent(d, a) ==
  CHOOSE e \in -15..15 :
    /\ IF e >= 0 THEN a * TwoTo(e) <= d ELSE a <= d * TwoTo(0 - e)
    /\ IF e + 1 >= 0 THEN a * TwoTo(e + 1) > d ELSE a > d * TwoTo(0 - e - 1)

\* d / a for positive integers d and a (true division, correctly rounded)
FloatDiv(d, a) ==
  LET e     == QuotientExponent(d, a)
      num   == IF e < 0 THEN d * TwoTo(0 - e) ELSE d
      den   == IF e >= 0 THEN a * TwoTo(e) ELSE a
      steps == DivSteps(num - den, den, MANT_DIG)
  IN  RoundNearestEven(<< 1 >> \o SubSeq(steps, 1, MANT_DIG - 1),
                       steps[MANT_DIG], steps[MANT_DIG + 1] # 0, e)

\* the bits of (the significand below position i) * k + carry, least
\* significant first
RECURSIVE MulSteps(_, _, _, _)
MulSteps(m, i, k, carry) ==
  IF i = 0
  THEN IF carry = 0 THEN << >> ELSE << carry % 2 >> \o MulSteps(m, 0, k, carry \div 2)
  ELSE LET t == m[i] * k + carry
       IN  << t % 2 >> \o MulSteps(m, i - 1, k, t \div 2)

\* x * k for a float x and a positive integer k that is itself a float
FloatMul(x, k) ==
  LET lsb  == MulSteps(x.m, MANT_DIG, k, 0)
      L    == Len(lsb)
      P    == [i \in 1..L |-> lsb[L + 1 - i]]
      rest == { i \in (MANT_DIG + 2)..L : P[i] = 1 }
  IN  IF L = MANT_DIG THEN [m |-> P, e |-> x.e]
      ELSE RoundNearestEven(SubSeq(P, 1, MANT_DIG), P[MANT_DIG + 1], rest # {},
                            x.e + (L - MANT_DIG))

\* int(x) for a float 0 <= x < 2^31
FloatToInt(x) ==
  IF x.e < 0 THEN 0 ELSE BitsValue(SubSeq(x.m, 1, x.e + 1))

\* max(500, floor(speed_change / accel * 1000)) in exact arithmetic
ExactDuration(speed_change, accel) ==
  LET d == (speed_change * 1000) \div accel
  IN  IF d > MIN_RAMP_MS THEN d ELSE MIN_RAMP_MS

\* lines 557-560: int(speed_change / acceleration * 1000), floored at 500
RampDuration(speed_change, accel) ==
  LET d == FloatToInt(FloatMul(FloatDiv(speed_change, accel), 1000))
  IN  IF d > MIN_RAMP_MS THEN d ELSE MIN_RAMP_MS

\* a stepwise transition that keeps stepping on its last write
SetpointNoFinalTarget(cur, target, steps, k) ==
  cur + (IF target > cur THEN 1 ELSE -1) * STEP_SIZE * (k + 1)

\* the setpoint of write k of _set_speed_stepwise (lines 635-655); write
\* number `steps` is the final write of the target
Setpoint(cur, target, steps, k) ==
  IF k >= steps THEN target
  ELSE cur + (IF target > cur THEN 1 ELSE -1) * STEP_SIZE * (k + 1)

\* number of intermediate writes of _set_speed_stepwise
StepCount(cur, target) ==
  IF Abs(target - cur) <= STEP_SIZE THEN 0 ELSE Abs(target - cur) \div STEP_SIZE

\* read_faults lines 785-815: the value returned for an exchange result
DecodeFaults(ok, ldp) ==
  IF ok /\ ldp # << >> /\ Len(ldp) >= 4
  THEN << ldp[1] + 256 * ldp[2] + 65536 * ldp[3] + 16777216 * ldp[4] >>
  ELSE << >>


(***************************************************************************)
(* Client calls.  A call runs handshake() and everything up to the writes   *)
(* of its first command in one step, then one step per packet read, then    *)
(* one step per decision taken on a finished command.                       *)
(***************************************************************************)
Rpms == {0, 400, 1200}

AccelValues == {8000, 10}

MOTOR == 1

IdleOp ==
  [name |-> "idle", stage |-> "", target |-> 0, dur |-> 0, i |-> 0, cur |-> 0,
   steps |-> 0, k |-> 0, pre_speed |-> << >>, pre_ldp |-> << >>,
   allNack |-> TRUE, cmds |-> 0]

NoLast ==
  [op |-> "none", ret |-> "None", val |-> << >>, target |-> 0,
   pre_speed |-> << >>, pre_ldp |-> << >>, allNack |-> FALSE, cmds |-> 0,
   lastPkt |-> NoPacket, why |-> ""]

\* the reads a handshake() invocation can meet
HsInputs(B, P) ==
  IF connected THEN { << << >>, << >> >> } ELSE B \X P

HsRecord(h) ==
  [ran |-> TRUE, pre_connected |-> connected, ret |-> h.ret, tx |-> h.tx,
   reads |-> h.reads, perf |-> h.perf, pong |-> h.pong]

\* the fields handshake() assigns
ApplyHs(h) ==
  /\ connected' = h.connected
  /\ ctrl_caps' = h.ctrl_caps
  /\ perf_caps' = h.perf_caps
  /\ hs' = HsRecord(h)

NewOp(name, target) ==
  [IdleOp EXCEPT !.name = name, !.target = target, !.pre_speed = last_speed_ref,
                 !.pre_ldp = last_data_payload]

\* the call returns: record it
Returned(o, ret, val) ==
  [op |-> o.name, ret |-> ret, val |-> val, target |-> o.target,
   pre_speed |-> o.pre_speed, pre_ldp |-> o.pre_ldp,
   allNack |-> o.allNack /\ o.cmds > 0, cmds |-> o.cmds,
   lastPkt |-> xch.lastPkt, why |-> xch.why]

\* the command just finished was refused by a NACK
EndedByNack == ~xch.ok /\ xch.lastPkt.type = TYPE_NACK

\* account for the command that just finished
Tally(o) == [o EXCEPT !.allNack = o.allNack /\ EndedByNack]

\* send the next command of the call
Send(o, payload, label, expect_data, allow_ack_only) ==
  /\ op' = [o EXCEPT !.cmds = o.cmds + 1]
  /\ xch' = StartXch(payload, label, expect_data, allow_ack_only)
  /\ txLog' = txLog \o TxFrames(payload, label)

\* handshake() called on its own (JetUI._init_motor, MotorService.initialize)
CallHandshake(B, P) ==
  /\ op.name = "idle"
  /\ \E in \in HsInputs(B, P) :
       LET h == Handshake(connected, ctrl_caps, perf_caps, in[1], in[2])
       IN /\ ApplyHs(h)
          /\ txLog' = h.tx
          /\ last' = [NoLast EXCEPT !.op = "handshake",
                                    !.ret = IF h.ret THEN "True" ELSE "False",
                                    !.pre_speed = last_speed_ref,
                                    !.pre_ldp = last_data_payload]
  /\ UNCHANGED << last_data_payload, last_speed_ref, acceleration_rpm_s, op, xch >>

\* set_acceleration
SetAcceleration ==
  /\ op.name = "idle"
  /\ \E a \in AccelValues : acceleration_rpm_s' = a
  /\ UNCHANGED << connected, ctrl_caps, perf_caps, last_data_payload,
                  last_speed_ref, op, xch, txLog, hs, last >>

\* start_motor / stop_motor / read_faults / fault_acknowledge up to the
\* first command sent
CallCommand(names, B, P) ==
  /\ op.name = "idle"
  /\ \E name \in names :
     \E in \in HsInputs(B, P) :
       LET h == Handshake(connected, ctrl_caps, perf_caps, in[1], in[2])
           o == NewOp(name, 0)
       IN /\ ApplyHs(h)
          /\ IF ~h.ret
             THEN /\ last' = Returned(o, IF name = "read_faults" THEN "None" ELSE "False", << >>)
                  /\ op' = IdleOp
                  /\ xch' = IdleXch
                  /\ txLog' = h.tx
             ELSE /\ last' = [NoLast EXCEPT !.op = "running"]
                  /\ CASE name = "start_motor" ->
                            /\ op' = [o EXCEPT !.cmds = 1]
                            /\ xch' = StartXch(StartPayload(MOTOR), "START_MOTOR", FALSE, TRUE)
                            /\ txLog' = h.tx \o TxFrames(StartPayload(MOTOR), "START_MOTOR")
                       [] name = "stop_motor" ->
                            /\ op' = [o EXCEPT !.cmds = 1]
                            /\ xch' = StartXch(StopPayload(MOTOR), "STOP_MOTOR", FALSE, TRUE)
                            /\ txLog' = h.tx \o TxFrames(StopPayload(MOTOR), "STOP_MOTOR")
                       [] name = "read_faults" ->
                            /\ op' = [o EXCEPT !.cmds = 1]
                            /\ xch' = StartXch(ReadFaultsPayload(MOTOR), "READ_FAULTS", TRUE, TRUE)
                            /\ txLog' = h.tx \o TxFrames(ReadFaultsPayload(MOTOR), "READ_FAULTS")
                       [] name = "fault_acknowledge" ->
                            /\ op' = [o EXCEPT !.cmds = 1, !.stage = "ack"]
                            /\ xch' = StartXch(FaultAckPayload(MOTOR), "FAULT_ACK", FALSE, TRUE)
                            /\ txLog' = h.tx \o TxFrames(FaultAckPayload(MOTOR), "FAULT_ACK")
                       [] name = "stop_ramp" ->
                            /\ op' = [o EXCEPT !.cmds = 1]
                            /\ xch' = StartXch(StopRampPayload(MOTOR), "StopRamp", FALSE, FALSE)
                            /\ txLog' = h.tx \o TxFrames(StopRampPayload(MOTOR), "StopRamp")
                       [] name = "request_name" ->
                            /\ op' = [o EXCEPT !.cmds = 1, !.i = 1]
                            /\ xch' = StartXch(NameFormats[1], NameLabels[1], TRUE, FALSE)
                            /\ txLog' = h.tx \o TxFrames(NameFormats[1], NameLabels[1])
  /\ UNCHANGED << last_data_payload, last_speed_ref, acceleration_rpm_s >>

\* close() (lines 241-245), and open() (lines 230-238) before the next
\* call: the port is closed and opened again, no field of the client is
\* assigned
Close ==
  /\ op.name = "idle"
  /\ last' = [NoLast EXCEPT !.op = "close"]
  /\ UNCHANGED << connected, ctrl_caps, perf_caps, last_data_payload,
                  last_speed_ref, acceleration_rpm_s, op, xch, txLog, hs >>

\* a client that drops the link when a command fails
RetStartStopDropsLink ==
  /\ op.name \in {"start_motor", "stop_motor", "stop_ramp"}
  /\ xch.phase = "done"
  /\ last' = Returned(Tally(op), IF xch.ok THEN "True" ELSE "False", << >>)
  /\ op' = IdleOp
  /\ xch' = IdleXch
  /\ connected' = (connected /\ xch.ok)
  /\ UNCHANGED << ctrl_caps, perf_caps, last_data_payload,
                  last_speed_ref, acceleration_rpm_s, txLog, hs >>

\* start_motor / stop_motor / stop_ramp return the result of their command
RetStartStop ==
  /\ op.name \in {"start_motor", "stop_motor", "stop_ramp"}
  /\ xch.phase = "done"
  /\ last' = Returned(Tally(op), IF xch.ok THEN "True" ELSE "False", << >>)
  /\ op' = IdleOp
  /\ xch' = IdleXch
  /\ UNCHANGED << connected, ctrl_caps, perf_caps, last_data_payload,
                  last_speed_ref, acceleration_rpm_s, txLog, hs >>

\* request_name after one of its formats: return True, try the next, or give up
RetRequestName ==
  /\ op.name = "request_name"
  /\ xch.phase = "done"
  /\ IF xch.ok
     THEN /\ last' = Returned(Tally(op), "True", << >>)
          /\ op' = IdleOp
          /\ xch' = IdleXch
          /\ UNCHANGED txLog
     ELSE IF op.i < Len(NameFormats)
     THEN /\ Send([Tally(op) EXCEPT !.i = op.i + 1],
                  NameFormats[op.i + 1], NameLabels[op.i + 1], TRUE, FALSE)
          /\ UNCHANGED last
     ELSE /\ last' = Returned(Tally(op), "False", << >>)
          /\ op' = IdleOp
          /\ xch' = IdleXch
          /\ UNCHANGED txLog
  /\ UNCHANGED << connected, ctrl_caps, perf_caps, last_data_payload,
                  last_speed_ref, acceleration_rpm_s, hs >>

\* read_faults decodes last_data_payload and returns (lines 785-815)
RetReadFaults ==
  /\ op.name = "read_faults"
  /\ xch.phase = "done"
  /\ LET v == DecodeFaults(xch.ok, last_data_payload)
     IN last' = Returned(Tally(op), IF v = << >> THEN "None" ELSE "value", v)
  /\ op' = IdleOp
  /\ xch' = IdleXch
  /\ UNCHANGED << connected, ctrl_caps, perf_caps, last_data_payload,
                  last_speed_ref, acceleration_rpm_s, txLog, hs >>

\* MotorService.read_speed lines 127-134 (JetUI._monitor_speed lines 369-373):
\* the value taken from last_data_payload after poll_speed returned
SpeedReading(ok, ldp) ==
  IF ldp # << >> /\ Len(ldp) >= 4 THEN << I32Value(ldp) >> ELSE << >>

\* MotorService.read_speed on an initialized service: poll_speed with
\* repeat=1 sends one POLL_SPEED_1 command, without a handshake
CallReadSpeed ==
  /\ op.name = "idle"
  /\ connected
  /\ last' = [NoLast EXCEPT !.op = "running"]
  /\ op' = [NewOp("read_speed", 0) EXCEPT !.cmds = 1]
  /\ xch' = StartXch(PollSpeedPayload(MOTOR), "POLL_SPEED_1", TRUE, TRUE)
  /\ txLog' = TxFrames(PollSpeedPayload(MOTOR), "POLL_SPEED_1")
  /\ UNCHANGED << connected, ctrl_caps, perf_caps, last_data_payload,
                  last_speed_ref, acceleration_rpm_s, hs >>

\* poll_speed returns (lines 746-762) and read_speed decodes
\* last_data_payload (lines 127-134)
RetReadSpeed ==
  /\ op.name = "read_speed"
  /\ xch.phase = "done"
  /\ LET v == SpeedReading(xch.ok, last_data_payload)
     IN last' = Returned(Tally(op), IF v = << >> THEN "None" ELSE "value", v)
  /\ op' = IdleOp
  /\ xch' = IdleXch
  /\ UNCHANGED << connected, ctrl_caps, perf_caps, last_data_payload,
                  last_speed_ref, acceleration_rpm_s, txLog, hs >>

\* fault_acknowledge after FAULT_ACK (lines 838-855): verify or give up
FaultAckSent ==
  /\ op.name = "fault_acknowledge"
  /\ op.stage = "ack"
  /\ xch.phase = "done"
  /\ IF xch.ok
     THEN /\ Send([Tally(op) EXCEPT !.stage = "verify"],
                  ReadFaultsPayload(MOTOR), "READ_FAULTS", TRUE, TRUE)
          /\ UNCHANGED last
     ELSE /\ last' = Returned(Tally(op), "False", << >>)
          /\ op' = IdleOp
          /\ xch' = IdleXch
          /\ UNCHANGED txLog
  /\ UNCHANGED << connected, ctrl_caps, perf_caps, last_data_payload,
                  last_speed_ref, acceleration_rpm_s, hs >>

\* lines 846-852: the outcome of fault_acknowledge for the value read back;
\* formatting None with 08X raises
FaultAckOutcome(remaining) ==
  IF remaining = << 0 >> THEN "True"
  ELSE IF remaining = << >> THEN "raise"
  ELSE "False"

\* fault_acknowledge after the verification read
FaultAckVerified ==
  /\ op.name = "fault_acknowledge"
  /\ op.stage = "verify"
  /\ xch.phase = "done"
  /\ LET v == DecodeFaults(xch.ok, last_data_payload)
     IN last' = Returned(Tally(op), FaultAckOutcome(v), v)
  /\ op' = IdleOp
  /\ xch' = IdleXch
  /\ UNCHANGED << connected, ctrl_caps, perf_caps, last_data_payload,
                  last_speed_ref, acceleration_rpm_s, txLog, hs >>


RampLabels == << "SPEED_RAMP_RAW_1", "SPEED_RAMP_RAW_2", "SPEED_RAMP_RAW_3" >>

InstantLabels == << "SetSpeed_1", "SetSpeed_2", "SetSpeed_3" >>

NFORMATS == 3

\* set_speed_auto_ramp without the test for an unchanged speed
SpeedCallOutcomeNoShortcut(hs_ok, speed_change, accel, pack_ok) ==
  IF ~hs_ok THEN "False"
  ELSE IF speed_change # 0 /\ (accel = 0 \/ ~pack_ok) THEN "raise"
  ELSE "send"

\* lines 545-566 and 590: how set_speed_auto_ramp ends before its first
\* command ("False", "True", "raise"), or "send" when it sends one
SpeedCallOutcome(hs_ok, speed_change, accel, pack_ok) ==
  IF ~hs_ok THEN "False"
  ELSE IF speed_change = 0 THEN "True"
  ELSE IF accel = 0 \/ ~pack_ok THEN "raise"
  ELSE "send"

\* lines 548-560: ramp_duration_ms of a speed command that reaches line 557
\* without raising, MIN_RAMP_MS standing in where that line is not reached
SpeedDuration(target, last_ref, accel) ==
  LET speed_change == Abs(target - OrZero(last_ref))
  IN  IF speed_change = 0 \/ accel = 0 THEN MIN_RAMP_MS
      ELSE RampDuration(speed_change, accel)

\* set_speed_auto_ramp that records the target before the ramp is attempted
CallSetSpeedOptimistic ==
  /\ op.name = "idle"
  /\ \E target \in Rpms :
     \E dur \in {SpeedDuration(target, last_speed_ref, acceleration_rpm_s)} :
     \E in \in HsInputs(FewBeaconReplies, FewPongReplies) :
       LET h     == Handshake(connected, ctrl_caps, perf_caps, in[1], in[2])
           o     == NewOp("set_speed", target)
           delta == Abs(target - OrZero(last_speed_ref))
       IN /\ ApplyHs(h)
          /\ IF SpeedCallOutcome(h.ret, delta, acceleration_rpm_s, RawPackOk(target, dur)) # "send"
             THEN /\ last' = Returned(o, SpeedCallOutcome(h.ret, delta, acceleration_rpm_s,
                                                          RawPackOk(target, dur)), << >>)
                  /\ op' = IdleOp
                  /\ xch' = IdleXch
                  /\ txLog' = h.tx
                  /\ UNCHANGED last_speed_ref
             ELSE /\ last' = [NoLast EXCEPT !.op = "running"]
                  /\ op' = [o EXCEPT !.stage = "raw", !.i = 1, !.dur = dur, !.cmds = 1]
                  /\ xch' = StartXch(RampFormats(target, dur, MOTOR)[1], RampLabels[1], FALSE, TRUE)
                  /\ txLog' = h.tx \o TxFrames(RampFormats(target, dur, MOTOR)[1], RampLabels[1])
                  /\ last_speed_ref' = << target >>
  /\ UNCHANGED << last_data_payload, acceleration_rpm_s >>

\* set_speed_auto_ramp (set_speed_rpm) up to the first raw-ramp command
\* (lines 545-566, 583-619)
CallSetSpeed ==
  /\ op.name = "idle"
  /\ \E target \in Rpms :
     \E dur \in {SpeedDuration(target, last_speed_ref, acceleration_rpm_s)} :
     \E in \in HsInputs(FewBeaconReplies, FewPongReplies) :
       LET h     == Handshake(connected, ctrl_caps, perf_caps, in[1], in[2])
           o     == NewOp("set_speed", target)
           delta == Abs(target - OrZero(last_speed_ref))
       IN /\ ApplyHs(h)
          /\ IF SpeedCallOutcome(h.ret, delta, acceleration_rpm_s, RawPackOk(target, dur)) # "send"
             THEN /\ last' = Returned(o, SpeedCallOutcome(h.ret, delta, acceleration_rpm_s,
                                                          RawPackOk(target, dur)), << >>)
                  /\ op' = IdleOp
                  /\ xch' = IdleXch
                  /\ txLog' = h.tx
             ELSE /\ last' = [NoLast EXCEPT !.op = "running"]
                  /\ op' = [o EXCEPT !.stage = "raw", !.i = 1, !.dur = dur, !.cmds = 1]
                  /\ xch' = StartXch(RampFormats(target, dur, MOTOR)[1], RampLabels[1], FALSE, TRUE)
                  /\ txLog' = h.tx \o TxFrames(RampFormats(target, dur, MOTOR)[1], RampLabels[1])
  /\ UNCHANGED << last_data_payload, last_speed_ref, acceleration_rpm_s >>

\* set_speed_ramp_raw that gives up after the first shape
RawDecisionOneShape(i, ok) ==
  IF ok THEN "return" ELSE "stepwise"

\* lines 610-629 and 565-572: what follows raw-ramp shape i
RawDecision(i, ok) ==
  IF ok THEN "return"
  ELSE IF i < NFORMATS THEN "next"
  ELSE "stepwise"

\* a raw-ramp command finished (lines 566-572, 610-629, 635-655)
RawDone ==
  /\ op.name = "set_speed"
  /\ op.stage = "raw"
  /\ xch.phase = "done"
  /\ LET o == Tally(op)
     IN IF RawDecision(o.i, xch.ok) = "return"
        THEN /\ last_speed_ref' = << o.target >>
             /\ last' = Returned(o, "True", << >>)
             /\ op' = IdleOp
             /\ xch' = IdleXch
             /\ UNCHANGED txLog
        ELSE IF RawDecision(o.i, xch.ok) = "next"
        THEN /\ Send([o EXCEPT !.i = o.i + 1],
                     RampFormats(o.target, o.dur, MOTOR)[o.i + 1], RampLabels[o.i + 1],
                     FALSE, TRUE)
             /\ UNCHANGED << last_speed_ref, last >>
        ELSE LET cur   == OrZero(last_speed_ref)
                 steps == StepCount(cur, o.target)
             IN /\ Send([o EXCEPT !.stage = "step", !.i = 1, !.cur = cur,
                                  !.steps = steps, !.k = 0],
                        InstantFormats(Setpoint(cur, o.target, steps, 0), MOTOR)[1],
                        InstantLabels[1], FALSE, TRUE)
                /\ UNCHANGED << last_speed_ref, last >>
  /\ UNCHANGED << connected, ctrl_caps, perf_caps, last_data_payload,
                  acceleration_rpm_s, hs >>

\* a stepwise register write finished (lines 572-576, 647-655, 678-685)
StepDone ==
  /\ op.name = "set_speed"
  /\ op.stage = "step"
  /\ xch.phase = "done"
  /\ LET o == Tally(op)
     IN IF xch.ok
        THEN IF o.k >= o.steps
             THEN /\ last_speed_ref' = << o.target >>
                  /\ last' = Returned(o, "True", << >>)
                  /\ op' = IdleOp
                  /\ xch' = IdleXch
                  /\ UNCHANGED txLog
             ELSE /\ Send([o EXCEPT !.k = o.k + 1, !.i = 1],
                          InstantFormats(Setpoint(o.cur, o.target, o.steps, o.k + 1), MOTOR)[1],
                          InstantLabels[1], FALSE, TRUE)
                  /\ UNCHANGED << last_speed_ref, last >>
        ELSE IF o.i < NFORMATS
        THEN /\ Send([o EXCEPT !.i = o.i + 1],
                     InstantFormats(Setpoint(o.cur, o.target, o.steps, o.k), MOTOR)[o.i + 1],
                     InstantLabels[o.i + 1], FALSE, TRUE)
             /\ UNCHANGED << last_speed_ref, last >>
        ELSE /\ last' = Returned(o, "False", << >>)
             /\ op' = IdleOp
             /\ xch' = IdleXch
             /\ UNCHANGED << last_speed_ref, txLog >>
  /\ UNCHANGED << connected, ctrl_caps, perf_caps, last_data_payload,
                  acceleration_rpm_s, hs >>

ClientInit ==
  /\ connected = FALSE
  /\ ctrl_caps = DefaultCaps
  /\ perf_caps = PerfUnset
  /\ last_data_payload = << >>
  /\ last_speed_ref = << >>
  /\ acceleration_rpm_s = 8000
  /\ op = IdleOp
  /\ xch = IdleXch
  /\ txLog = << >>
  /\ hs = NoHs
  /\ last = NoLast

CommandNames == {"start_motor", "stop_motor", "read_faults", "fault_acknowledge"}

\* the sections of the model the client does not touch
CrcParked ==
  /\ crc_v = 0 /\ crc_word = << >> /\ crc_ok = "unset"
  /\ crc_bit = -1 /\ crc_flip_ok = "unset"

HdrParked == hd_len = 0 /\ hd_pc = "idle" /\ hd_hdr = << >> /\ hd_tx = << >>

\* FaultMonitor.__init__ (lines 21-25)
FmInit ==
  /\ fm_current_faults = 0
  /\ fm_active_fault_list = << >>
  /\ fm_system_stalled = FALSE
  /\ fm_notified = << >>
  /\ fm_ret = "none"
  /\ fm_call = [name |-> "none", arg |-> 0, callbacks |-> 0]

DrainParked ==
  /\ dr_caller = "open"
  /\ dr_pc = "returned"
  /\ dr_waiting = 0
  /\ dr_discarded = 0

ScaleParked ==
  /\ sc_max = DEFAULT_MAX_SPEED_RPM
  /\ sc_fn = "none"
  /\ sc_arg = 0
  /\ sc_pc = "idle"
  /\ sc_ret = 0

DurParked ==
  /\ du_target = 0
  /\ du_last = << >>
  /\ du_accel = 8000
  /\ du_pc = "idle"
  /\ du_ms = 0
  /\ du_raw = << >>

SyncParked ==
  /\ sy_garbage = << >> /\ sy_header = << >> /\ sy_pos = 0
  /\ sy_window = << >> /\ sy_pc = "idle" /\ sy_ret = << >>

Threads == {"tk", "gpio"}

IdleThread == [handler |-> "", pc |-> "idle"]

ConcInit ==
  /\ thr = [t \in Threads |-> IdleThread]
  /\ ble_posted = 0

NoFlow ==
  [handler |-> "none", resuming |-> FALSE, acted |-> 0, tx |-> << >>,
   ack |-> "none", reread_done |-> FALSE, reread |-> << >>,
   resume_scheduled |-> FALSE, last_read |-> << >>]

UiInit ==
  /\ power_on = FALSE /\ paused = FALSE /\ speed = 40
  /\ pre_pause_speed = << >> /\ current_faults = 0
  /\ system_stalled = FALSE /\ motor_ready = FALSE /\ status = ""
  /\ resume_after = FALSE /\ power_default_after = FALSE
  /\ ui_flow = NoFlow

ClientStep(A) == A /\ UNCHANGED << crcVars, hdrVars, durVars, drainVars, scaleVars, fmVars, syncVars, uiVars, concVars, pilotVars >>

ClientNext ==
  \/ ClientStep(CallHandshake(FewBeaconReplies, FewPongReplies))
  \/ ClientStep(SetAcceleration)
  \/ ClientStep(CallCommand(CommandNames, FewBeaconReplies, FewPongReplies))
  \/ ClientStep(CallSetSpeed)
  \/ ClientStep(\E pkt \in Packets : XchRead(pkt))
  \/ ClientStep(XchPollTimeout)
  \/ ClientStep(RetStartStop)
  \/ ClientStep(RetReadFaults)
  \/ ClientStep(FaultAckSent)
  \/ ClientStep(FaultAckVerified)
  \/ ClientStep(RawDone)
  \/ ClientStep(StepDone)

vars == << clientVars, crcVars, hdrVars, durVars, drainVars, scaleVars, fmVars, syncVars, uiVars, concVars, pilotVars >>

Init == ClientInit /\ CrcParked /\ SyncParked /\ HdrParked /\ DurParked /\ DrainParked /\ ScaleParked /\ FmInit /\ UiInit /\ ConcInit /\ PilotInit

Next == ClientNext

Spec == Init /\ [][Next]_vars

\* the handshake against every kind of peer reply
NextHs ==
  \/ ClientStep(CallHandshake(BeaconReplies, PongReplies))
  \/ ClientStep(CallCommand({"start_motor"}, BeaconReplies, PongReplies))
  \/ ClientStep(\E pkt \in Packets : XchRead(pkt))
  \/ ClientStep(RetStartStop)

SpecHs == Init /\ [][NextHs]_vars

\* one command exchange per call, under every pair of expect_data and
\* allow_ack_only the client uses
ExchangeCallers == {"start_motor", "stop_ramp", "read_faults", "request_name"}

NextXch ==
  \/ ClientStep(CallCommand(ExchangeCallers, FewBeaconReplies, FewPongReplies))
  \/ ClientStep(\E pkt \in Packets : XchRead(pkt))
  \/ ClientStep(XchPollTimeout)
  \/ ClientStep(RetStartStop)
  \/ ClientStep(RetReadFaults)
  \/ ClientStep(RetRequestName)

SpecXch == Init /\ [][NextXch]_vars

\* _read_packet returns within its timeout, with a packet or with None
XchReads == ClientStep(\E pkt \in Packets : XchRead(pkt))

\* the clock passes the deadline of the poll loop
XchExpires == ClientStep(XchPollTimeout)

\* the command exchange with time advancing: every read returns and the
\* deadline of the poll loop is reached
SpecXchFair == SpecXch /\ WF_vars(XchReads) /\ WF_vars(XchExpires)

\* the life of a client: commands that succeed or fail, and the port closed
\* and opened again
NextLife ==
  \/ ClientStep(CallCommand({"start_motor", "read_faults"}, FewBeaconReplies, FewPongReplies))
  \/ ClientStep(\E pkt \in Packets : XchRead(pkt))
  \/ ClientStep(XchPollTimeout)
  \/ ClientStep(RetStartStop)
  \/ ClientStep(RetReadFaults)
  \/ ClientStep(Close)

SpecLife == Init /\ [][NextLife]_vars

\* the speed poll of MotorService.read_speed next to the fault poll
NextPoll ==
  \/ ClientStep(CallCommand({"read_faults"}, FewBeaconReplies, FewPongReplies))
  \/ ClientStep(CallReadSpeed)
  \/ ClientStep(\E pkt \in Packets : XchRead(pkt))
  \/ ClientStep(XchPollTimeout)
  \/ ClientStep(RetReadFaults)
  \/ ClientStep(RetReadSpeed)

SpecPoll == Init /\ [][NextPoll]_vars

\* the speed commands alone
NextSpeed ==
  \/ ClientStep(SetAcceleration)
  \/ ClientStep(CallSetSpeed)
  \/ ClientStep(\E pkt \in Packets : XchRead(pkt))
  \/ ClientStep(RawDone)
  \/ ClientStep(StepDone)

SpecSpeed == Init /\ [][NextSpeed]_vars


(***************************************************************************)
(* compute_header_crc / check_header_crc on their own.                      *)
(***************************************************************************)
\* largest number of set bits in the sparse 28-bit inputs
MaxCrcBits == 2

RECURSIVE Pow2(_)
Pow2(n) == IF n = 0 THEN 1 ELSE 2 * Pow2(n - 1)

\* 28-bit values with at most k bits set
RECURSIVE SparseValues(_)
SparseValues(k) ==
  IF k = 0 THEN {0}
  ELSE LET S == SparseValues(k - 1)
       IN  S \cup UNION { { v + Pow2(i) : i \in { j \in 0..27 : (v \div Pow2(j)) % 2 = 0 } } : v \in S }

\* lower28 of the headers the client itself builds
BuiltLower28 ==
  { Lower28(build_beacon(c)) : c \in PeerCapsSet \cup {DefaultCaps} }
  \cup { Lower28(build_ping) }
  \cup { Lower28(build_data_header(n)) : n \in {0, 1, 6, 12, LengthLimit} }

\* the values handed to compute_header_crc: the sparse ones, their
\* complements, the client's own headers, and every (third byte, top nibble)
\* pair, which drives the last table step through every crc it can see
CrcInputs ==
  SparseValues(MaxCrcBits)
  \cup { 268435455 - v : v \in SparseValues(MaxCrcBits) }
  \cup BuiltLower28
  \cup { 65536 * b + 16777216 * n : b \in 0..255, n \in 0..15 }

CrcInit ==
  /\ crc_v \in CrcInputs
  /\ crc_word = << >>
  /\ crc_ok = "unset"
  /\ crc_bit = -1
  /\ crc_flip_ok = "unset"

\* word = v | (compute_header_crc(v) << 28)
CrcBuild ==
  /\ crc_word = << >>
  /\ crc_word' = WordBytes(crc_v, compute_header_crc(crc_v))
  /\ UNCHANGED << crc_v, crc_ok, crc_bit, crc_flip_ok >>

\* check_header_crc(word)
CrcCheck ==
  /\ crc_word # << >>
  /\ crc_ok = "unset"
  /\ crc_ok' = IF check_header_crc(crc_word) THEN "True" ELSE "False"
  /\ UNCHANGED << crc_v, crc_word, crc_bit, crc_flip_ok >>

\* word ^ (1 << i) on the four bytes of a word
FlipBit(w, i) == [w EXCEPT ![(i \div 8) + 1] = BitXor(@, Pow2(i % 8))]

\* check_header_crc(word ^ (1 << i)) for one of the 32 bit positions
CrcFlip ==
  /\ crc_ok # "unset"
  /\ crc_bit = -1
  /\ \E i \in 0..31 :
       /\ crc_bit' = i
       /\ crc_flip_ok' = IF check_header_crc(FlipBit(crc_word, i))
                           THEN "True" ELSE "False"
  /\ UNCHANGED << crc_v, crc_word, crc_ok >>

CrcStep(A) == A /\ UNCHANGED << clientVars, hdrVars, durVars, drainVars, scaleVars, fmVars, syncVars, uiVars, concVars, pilotVars >>

NextCrc ==
  \/ CrcStep(CrcBuild)
  \/ CrcStep(CrcCheck)
  \/ CrcStep(CrcFlip)

InitCrc == ClientInit /\ CrcInit /\ SyncParked /\ HdrParked /\ DurParked /\ DrainParked /\ ScaleParked /\ FmInit /\ UiInit /\ ConcInit /\ PilotInit

SpecCrc == InitCrc /\ [][NextCrc]_vars

\* C10: the word made of a 28-bit value and the CRC computed for it is
\* accepted by the validator, whatever the value.
C10_CrcRoundTrip == crc_ok # "False"

\* a value with bits in every byte and in the top nibble went through
\* compute_header_crc and the validator
C10_Witness ==
  /\ crc_ok = "True"
  /\ crc_v > 16777216
  /\ crc_v % 256 # 0
  /\ crc_word[4] \div 16 # 0

\* C11: flipping any single bit, 0..31, of the word made of a 28-bit value
\* and its computed CRC makes the validator reject it.
C11_SingleBitFlipDetected == crc_flip_ok # "True"

\* the top bit of the CRC nibble of a word with payload and length bits set
\* was flipped and the validator refused the result
C11_Witness ==
  /\ crc_bit = 31
  /\ crc_flip_ok = "False"
  /\ crc_ok = "True"
  /\ crc_v > 16777216
  /\ crc_v % 256 # 0


(***************************************************************************)
(* build_data_header and the writes of _send_data_command on their own.    *)
(***************************************************************************)
\* how far past 0x1FFF the payload lengths go
MaxOverflow == 2

HdrInit ==
  /\ hd_len \in 0..(LengthLimit + MaxOverflow)
  /\ hd_pc = "idle"
  /\ hd_hdr = << >>
  /\ hd_tx = << >>

\* hdr = self.build_data_header(len(payload))
HdrBuild ==
  /\ hd_pc = "idle"
  /\ hd_pc' = "built"
  /\ hd_hdr' = build_data_header(hd_len)
  /\ UNCHANGED << hd_len, hd_tx >>

\* _send_data_command up to its reads, for a payload of hd_len bytes
HdrSend ==
  /\ hd_pc = "built"
  /\ hd_pc' = "sent"
  /\ LET frames == TxFrames([i \in 1..hd_len |-> 0], "CMD")
     IN  hd_tx' = [k \in 1..Len(frames) |->
                     [part |-> frames[k].part, n |-> Len(frames[k].bytes)]]
  /\ UNCHANGED << hd_len, hd_hdr >>

HdrStep(A) == A /\ UNCHANGED << clientVars, crcVars, durVars, drainVars, scaleVars, fmVars, syncVars, uiVars, concVars, pilotVars >>

NextHdr ==
  \/ HdrStep(HdrBuild)
  \/ HdrStep(HdrSend)

InitHdr == ClientInit /\ CrcParked /\ HdrInit /\ DurParked /\ DrainParked /\ ScaleParked /\ FmInit /\ SyncParked /\ UiInit /\ ConcInit /\ PilotInit

SpecHdr == InitHdr /\ [][NextHdr]_vars

\* C12: build_data_header raises exactly for lengths above 0x1FFF; below, it
\* returns four little-endian bytes whose low nibble is DATA and whose bits
\* 4..16 are the length; and when it raises _send_data_command has written
\* nothing.
C12_LengthOverflow ==
  hd_pc # "idle" =>
     /\ (hd_hdr = << >>) <=> (hd_len > 8191)
     /\ hd_len <= 8191 =>
           /\ Len(hd_hdr) = 4
           /\ hd_hdr[1] % 16 = 9
           /\ ((hd_hdr[1] + 256 * hd_hdr[2] + 65536 * hd_hdr[3]) \div 16) % 8192 = hd_len
     /\ (hd_pc = "sent" /\ hd_len > 8191) => hd_tx = << >>
     /\ (hd_pc = "sent" /\ hd_len <= 8191) => Len(hd_tx) >= 1

\* a payload of 0x2000 bytes was handed to _send_data_command, which raised
\* before writing
C12_Witness ==
  /\ hd_pc = "sent"
  /\ hd_len = 8192
  /\ hd_hdr = << >>
  /\ hd_tx = << >>


(***************************************************************************)
(* The ramp duration on its own.                                            *)
(***************************************************************************)
\* largest target speed
MaxTarget == 1200

\* accelerations in RPM/s
DurAccels == {500, 2000, 8000}

\* last commanded speeds, << >> for a client that never set one
DurLasts == {<< >>, << 0 >>, << 3000 >>}

DurInit ==
  /\ du_target \in 0..MaxTarget
  /\ du_last \in DurLasts
  /\ du_accel \in DurAccels
  /\ du_pc = "idle"
  /\ du_ms = 0
  /\ du_raw = << >>

\* set_speed_auto_ramp from line 548 to the call at line 566, and the
\* raw_data of set_speed_ramp_raw (line 590)
DurCompute ==
  /\ du_pc = "idle"
  /\ LET current_speed == OrZero(du_last)
         speed_change  == Abs(du_target - current_speed)
         dur           == RampDuration(speed_change, du_accel)
     IN  IF speed_change = 0
         THEN /\ du_pc' = "noop"
              /\ UNCHANGED << du_ms, du_raw >>
         ELSE /\ du_pc' = "ramp"
              /\ du_ms' = dur
              /\ du_raw' = IF RawPackOk(du_target, du_ms')
                           THEN I32LE(du_target) \o U16LE(du_ms')
                           ELSE << >>
  /\ UNCHANGED << du_target, du_last, du_accel >>

DurStep(A) == A /\ UNCHANGED << clientVars, crcVars, hdrVars, drainVars, scaleVars, fmVars, syncVars, uiVars, concVars, pilotVars >>

NextDur == DurStep(DurCompute)

InitDur == ClientInit /\ CrcParked /\ HdrParked /\ DurInit /\ DrainParked /\ ScaleParked /\ FmInit /\ SyncParked /\ UiInit /\ ConcInit /\ PilotInit

SpecDur == InitDur /\ [][NextDur]_vars

\* C18: whenever the target differs from the last commanded speed, the
\* duration handed to the raw-ramp command, and sent in its last two bytes,
\* is max(500, floor(|target - last| / accel * 1000)) milliseconds.
C18_DurationIsFloor ==
  du_pc = "ramp" =>
     /\ du_ms = ExactDuration(Abs(du_target - OrZero(du_last)), du_accel)
     /\ du_ms >= MIN_RAMP_MS
     /\ Len(du_raw) = 6
     /\ du_raw[5] + 256 * du_raw[6] = du_ms

(***************************************************************************)
(* The speed scaling conversions on their own.                              *)
(***************************************************************************)
\* largest argument of a conversion
MaxScaleArg == 1500

\* maximum speeds given to set_max_speed (line 470); 4800 is the default
ScaleMaxes == {3000, DEFAULT_MAX_SPEED_RPM, 6000}

\* floor(percentage * max / 100) in exact arithmetic
ExactRpm(percentage, max_speed_rpm) == (percentage * max_speed_rpm) \div 100

\* floor(rpm * 100 / max) in exact arithmetic
ExactPercentage(rpm, max_speed_rpm) == (rpm * 100) \div max_speed_rpm

\* line 490: int((percentage / 100.0) * self._max_speed_rpm), percentage >= 0
percentage_to_rpm(percentage, max_speed_rpm) ==
  IF percentage = 0 THEN 0
  ELSE FloatToInt(FloatMul(FloatDiv(percentage, 100), max_speed_rpm))

\* line 496: int((rpm / self._max_speed_rpm) * 100), rpm >= 0
rpm_to_percentage(rpm, max_speed_rpm) ==
  IF rpm = 0 THEN 0
  ELSE FloatToInt(FloatMul(FloatDiv(rpm, max_speed_rpm), 100))

ScaleInit ==
  /\ sc_max \in ScaleMaxes
  /\ sc_fn \in {"percentage_to_rpm", "rpm_to_percentage"}
  /\ sc_arg \in 0..MaxScaleArg
  /\ sc_pc = "idle"
  /\ sc_ret = 0

CallPercentageToRpm ==
  /\ sc_pc = "idle"
  /\ sc_fn = "percentage_to_rpm"
  /\ sc_ret' = percentage_to_rpm(sc_arg, sc_max)
  /\ sc_pc' = "returned"
  /\ UNCHANGED << sc_max, sc_fn, sc_arg >>

CallRpmToPercentage ==
  /\ sc_pc = "idle"
  /\ sc_fn = "rpm_to_percentage"
  /\ sc_ret' = rpm_to_percentage(sc_arg, sc_max)
  /\ sc_pc' = "returned"
  /\ UNCHANGED << sc_max, sc_fn, sc_arg >>

ScaleStep(A) == A /\ UNCHANGED << clientVars, crcVars, hdrVars, durVars, drainVars, fmVars, syncVars, uiVars, concVars, pilotVars >>

NextScale ==
  \/ ScaleStep(CallPercentageToRpm)
  \/ ScaleStep(CallRpmToPercentage)

InitScale == ClientInit /\ CrcParked /\ HdrParked /\ DurParked /\ DrainParked /\ ScaleInit /\ FmInit /\ SyncParked /\ UiInit /\ ConcInit /\ PilotInit

SpecScale == InitScale /\ [][NextScale]_vars

\* C28: percentage_to_rpm returns floor(percentage * max / 100) and
\* rpm_to_percentage returns floor(rpm * 100 / max); with max 4800,
\* 100 % is 4800 RPM, 0 % is 0 RPM and 2400 RPM is 50 %.
C28_ScalingIsFloor ==
  sc_pc = "returned" =>
     /\ sc_fn = "percentage_to_rpm" => sc_ret = ExactRpm(sc_arg, sc_max)
     /\ sc_fn = "rpm_to_percentage" => sc_ret = ExactPercentage(sc_arg, sc_max)

(***************************************************************************)
(* _drain on its own (lines 247-253): the serial buffer fills while the     *)
(* client sleeps.                                                           *)
(***************************************************************************)
\* size of the receive buffer of the serial port
MaxWaiting == 6

\* where the count of discarded bytes stops
MaxDiscarded == 8

DrainInit ==
  /\ dr_caller \in {"open", "handshake"}
  /\ dr_pc = "settle"
  /\ dr_waiting \in 0..MaxWaiting
  /\ dr_discarded = 0

\* time.sleep(0.02)
DrainSettle ==
  /\ dr_pc = "settle"
  /\ dr_pc' = "test"
  /\ UNCHANGED << dr_caller, dr_waiting, dr_discarded >>

\* while self.ser.in_waiting:
DrainTest ==
  /\ dr_pc = "test"
  /\ dr_pc' = IF dr_waiting # 0 THEN "read" ELSE "returned"
  /\ UNCHANGED << dr_caller, dr_waiting, dr_discarded >>

\* self.ser.read(self.ser.in_waiting); time.sleep(0.001)
DrainRead ==
  /\ dr_pc = "read"
  /\ dr_discarded' = Min(dr_discarded + dr_waiting, MaxDiscarded)
  /\ dr_waiting' = 0
  /\ dr_pc' = "test"
  /\ UNCHANGED dr_caller

\* the peer transmits one more byte
PeerSends ==
  /\ dr_pc # "returned"
  /\ dr_waiting < MaxWaiting
  /\ dr_waiting' = dr_waiting + 1
  /\ UNCHANGED << dr_caller, dr_pc, dr_discarded >>

DrainStep(A) == A /\ UNCHANGED << clientVars, crcVars, hdrVars, durVars, scaleVars, fmVars, syncVars, uiVars, concVars, pilotVars >>

\* the steps of the client
DrainRuns ==
  \/ DrainStep(DrainSettle)
  \/ DrainStep(DrainTest)
  \/ DrainStep(DrainRead)

NextDrain ==
  \/ DrainRuns
  \/ DrainStep(PeerSends)

InitDrain == ClientInit /\ CrcParked /\ HdrParked /\ DurParked /\ DrainInit /\ ScaleParked /\ FmInit /\ SyncParked /\ UiInit /\ ConcInit /\ PilotInit

SpecDrain == InitDrain /\ [][NextDrain]_vars

\* the client thread keeps running; nothing is assumed about the peer
SpecDrainFair == SpecDrain /\ WF_vars(DrainRuns)

\* C22: every call of _drain returns, whatever the peer sends and whenever.
C22_DrainReturns == <>(dr_pc = "returned")

(***************************************************************************)
(* _read_header_sync against a stream of garbage bytes and one header.     *)
(***************************************************************************)
\* longest run of garbage bytes ahead of the header
MaxGarbage == 4

GarbageBytes == {0, 15, 165}

RECURSIVE SeqsUpTo(_, _)
SeqsUpTo(S, n) ==
  IF n = 0 THEN { << >> }
  ELSE LET T == SeqsUpTo(S, n - 1)
       IN  T \cup { Append(t, b) : t \in { u \in T : Len(u) = n - 1 }, b \in S }

GarbageSeqs == SeqsUpTo(GarbageBytes, MaxGarbage)

\* CRC-correct headers a peer sends
SyncHeaders ==
  { build_data_header(0), build_data_header(4), build_ping, build_beacon(DefaultCaps) }

Stream == sy_garbage \o sy_header

SyncInit ==
  /\ sy_garbage \in GarbageSeqs
  /\ sy_header \in SyncHeaders
  /\ sy_pos = 0
  /\ sy_window = << >>
  /\ sy_pc = "idle"
  /\ sy_ret = << >>

\* window.pop(0); window.append(nxt[0]) moved the window the wrong way
SlideKeepFirst(window, b) == SubSeq(window, 1, 3) \o << b >>

\* window.pop(0); window.append(nxt[0])
Slide(window, b) == Tail(window) \o << b >>

\* window = bytearray(self._read_exact(4, timeout)); if len(window) < 4:
\* return b''.  _read_exact hands back what arrived before its deadline, n
\* bytes of the four
SyncStart ==
  /\ sy_pc = "idle"
  /\ \E n \in 0..4 :
       /\ sy_pos' = n
       /\ IF n < 4
            THEN /\ sy_pc' = "done"
                 /\ sy_window' = SubSeq(Stream, 1, n)
                 /\ sy_ret' = << >>
            ELSE /\ sy_pc' = "loop"
                 /\ sy_window' = SubSeq(Stream, 1, 4)
                 /\ sy_ret' = << >>
  /\ UNCHANGED << sy_garbage, sy_header >>

\* one turn of the while loop with time left: return the window if its CRC
\* checks, else read one byte and slide; a read that yields nothing turns
\* again with the same state
SyncLoop ==
  /\ sy_pc = "loop"
  /\ IF check_header_crc(FromBytesLE(sy_window))
       THEN /\ sy_pc' = "done"
            /\ sy_ret' = sy_window
            /\ UNCHANGED << sy_pos, sy_window >>
       ELSE /\ sy_pos < Len(Stream)
            /\ sy_window' = Slide(sy_window, Stream[sy_pos + 1])
            /\ sy_pos' = sy_pos + 1
            /\ UNCHANGED << sy_pc, sy_ret >>
  /\ UNCHANGED << sy_garbage, sy_header >>

\* the while condition fails: time.time() - start >= timeout
SyncTimeout ==
  /\ sy_pc = "loop"
  /\ sy_pc' = "done"
  /\ sy_ret' = << >>
  /\ UNCHANGED << sy_garbage, sy_header, sy_pos, sy_window >>

SyncStep(A) == A /\ UNCHANGED << clientVars, crcVars, hdrVars, durVars, drainVars, scaleVars, fmVars, uiVars, concVars, pilotVars >>

NextSync ==
  \/ SyncStep(SyncStart)
  \/ SyncStep(SyncLoop)
  \/ SyncStep(SyncTimeout)

InitSync == ClientInit /\ CrcParked /\ SyncInit /\ HdrParked /\ DurParked /\ DrainParked /\ ScaleParked /\ FmInit /\ UiInit /\ ConcInit /\ PilotInit

SpecSync == InitSync /\ [][NextSync]_vars

WindowAt(i) == SubSeq(Stream, i, i + 3)

ValidAt(i) == check_header_crc(FromBytesLE(WindowAt(i)))

\* start of the first CRC-correct window of the stream (the header itself
\* is one, so there always is a first)
FirstValid ==
  CHOOSE i \in 1..(Len(sy_garbage) + 1) :
    ValidAt(i) /\ \A j \in 1..(i - 1) : ~ValidAt(j)

\* C9 as stated: whenever _read_header_sync returns a header on a stream of
\* garbage followed by one CRC-correct header, it returns that header and
\* has consumed the garbage and the header.
C9_ReturnsTheHeader ==
  (sy_pc = "done" /\ sy_ret # << >>) =>
     (sy_ret = sy_header /\ sy_pos = Len(Stream))

\* C9 amended: a header that _read_header_sync returns is the first
\* CRC-correct 4-byte window of the stream, with exactly the bytes up to the
\* end of that window consumed; it is the appended header, with garbage and
\* header consumed and nothing else, when no window that starts in the
\* garbage is CRC-correct.
C9_ReturnsFirstValidWindow ==
  (sy_pc = "done" /\ sy_ret # << >>) =>
     /\ sy_ret = WindowAt(FirstValid)
     /\ sy_pos = FirstValid + 3
     /\ (\A j \in 1..Len(sy_garbage) : ~ValidAt(j)) =>
           (sy_ret = sy_header /\ sy_pos = Len(Stream))

\* the window slid over a full run of garbage and came to rest on the header
C9_Witness ==
  /\ sy_pc = "done"
  /\ Len(sy_garbage) = MaxGarbage
  /\ sy_ret = sy_header
  /\ sy_pos = Len(Stream)
  /\ \A j \in 1..Len(sy_garbage) : ~ValidAt(j)


(***************************************************************************)
(* JetUI handlers around faults, power and pause.  motor_ready is set only  *)
(* after handshake() returned True and the client never leaves Connected,   *)
(* so the handshake() that opens every client call a handler makes returns  *)
(* True without I/O; what the controller answers to each command is the    *)
(* handler's input.                                                         *)
(***************************************************************************)
STALL_FAULTS == 1048

CLEARABLE_FAULTS == 231

\* keys of FAULT_NAMES
FaultNameBits == {1, 2, 4, 8, 16, 32, 64, 128, 1024}

\* values the fault register takes: none, clearable, stall, both, unnamed
FaultVals == {0, 2, 8, 10, 256}

\* what read_faults returns: None or the register
FaultReads == { << >> } \cup { << v >> : v \in FaultVals }

\* "FAULT" in self.status_label.cget("text").upper()
HasFaultWord(text) ==
  text \in { "FAULT: one", "FAULT CLEAR FAILED", "FAULTS CLEARED",
             "CRITICAL FAULT - FIX REQUIRED", "FAULT CLEAR ERROR" }

UiState ==
  [power_on |-> power_on, paused |-> paused, speed |-> speed,
   pre_pause_speed |-> pre_pause_speed, current_faults |-> current_faults,
   system_stalled |-> system_stalled, motor_ready |-> motor_ready,
   status |-> status, resume_after |-> resume_after,
   power_default_after |-> power_default_after, flow |-> ui_flow]

Entered(u, name) ==
  [u EXCEPT !.flow = [NoFlow EXCEPT !.handler = name, !.acted = u.current_faults,
                                    !.last_read = u.flow.last_read]]

Sent(u, label) == [u EXCEPT !.flow.tx = Append(@, label)]

\* read_faults returned r: the handler's flow keeps what the register read
\* last, << >> before the first read
ReadFaults(u, r) == [Sent(u, "READ_FAULTS") EXCEPT !.flow.last_read = << r >>]

SetUi(u) ==
  /\ power_on' = u.power_on
  /\ paused' = u.paused
  /\ speed' = u.speed
  /\ pre_pause_speed' = u.pre_pause_speed
  /\ current_faults' = u.current_faults
  /\ system_stalled' = u.system_stalled
  /\ motor_ready' = u.motor_ready
  /\ status' = u.status
  /\ resume_after' = u.resume_after
  /\ power_default_after' = u.power_default_after
  /\ ui_flow' = u.flow

\* _send_speed_to_motor
SendSpeedToMotor(u) ==
  IF ~u.motor_ready THEN u
  ELSE IF ~u.power_on \/ u.paused \/ u.system_stalled THEN u
  ELSE Sent(u, "SET_SPEED")

\* _motor_start_safe
MotorStartSafe(u) ==
  IF ~u.motor_ready THEN u
  ELSE IF u.system_stalled THEN u
  ELSE LET v == Sent(u, "START_MOTOR")
       IN  IF v.speed > 0 THEN SendSpeedToMotor(v) ELSE v

\* _motor_stop_safe
MotorStopSafe(u) ==
  IF ~u.motor_ready THEN u ELSE Sent(u, "STOP_MOTOR")

\* _resume_motor
ResumeMotor(u) ==
  LET v == [u EXCEPT !.paused = FALSE, !.system_stalled = FALSE,
                     !.speed = IF u.pre_pause_speed # << >>
                                 THEN u.pre_pause_speed[1] ELSE @]
  IN  MotorStartSafe(v)

\* _display_fault_messages
DisplayFaultMessages(u, flags) ==
  LET n == Cardinality({ b \in FaultNameBits : BitAnd(flags, b) # 0 })
  IN  IF n = 0 THEN u
      ELSE IF n = 1 THEN [u EXCEPT !.status = "FAULT: one"]
      ELSE [u EXCEPT !.status = "fault list"]

\* _update_fault_display
UpdateFaultDisplay(u, flags) ==
  LET v == [u EXCEPT !.current_faults = flags]
  IN  IF flags = 0
        THEN [v EXCEPT !.system_stalled = FALSE,
                       !.status = IF HasFaultWord(@) THEN "" ELSE @]
        ELSE LET w == [v EXCEPT !.system_stalled = TRUE]
                 x == IF w.power_on /\ ~w.paused
                        THEN [MotorStopSafe(w) EXCEPT !.paused = TRUE, !.speed = 0]
                        ELSE w
             IN  DisplayFaultMessages(x, flags)

\* _auto_clear_faults_and_resume.  ack_ok: the FAULT_ACK command succeeded;
\* remaining: what fault_acknowledge's verification read returned; after:
\* what the handler's own read returned
AutoClearFaultsAndResume(u, ack_ok, remaining, after) ==
  IF ~u.motor_ready THEN u
  ELSE
    LET a == [Sent(u, "FAULT_ACK") EXCEPT !.flow.ack = "False"]
        b == IF ack_ok
               THEN [ReadFaults(a, remaining) EXCEPT
                        !.flow.ack = FaultAckOutcome(remaining),
                        !.flow.reread_done = TRUE,
                        !.flow.reread = remaining]
               ELSE a
    IN  IF b.flow.ack = "raise" THEN [b EXCEPT !.status = "FAULT CLEAR ERROR"]
        ELSE IF b.flow.ack = "False" THEN [b EXCEPT !.status = "FAULT CLEAR FAILED"]
        ELSE
          LET c == [ReadFaults(b, after) EXCEPT !.flow.reread = after]
          IN  IF after = << 0 >>
                THEN [c EXCEPT !.status = "FAULTS CLEARED",
                               !.resume_after = TRUE,
                               !.flow.resume_scheduled = TRUE]
              ELSE IF after = << >>
                THEN [c EXCEPT !.status = "FAULT CLEAR ERROR"]
              ELSE IF BitAnd(after[1], STALL_FAULTS) # 0
                THEN [c EXCEPT !.status = "CRITICAL FAULT - FIX REQUIRED"]
              ELSE [c EXCEPT !.status = "CONDITION NOT FIXED"]

\* a resume that acknowledges whenever no stall bit is set
ResumeDecisionAcksZero(faults) ==
  IF BitAnd(faults, STALL_FAULTS) # 0 THEN "reject" ELSE "clear"

\* toggle_pause lines 1119-1150: what START does for the cached fault flags
ResumeDecision(faults) ==
  IF faults = 0 THEN "resume"
  ELSE IF BitAnd(faults, STALL_FAULTS) # 0 THEN "reject"
  ELSE IF BitAnd(faults, CLEARABLE_FAULTS) # 0 THEN "clear"
  ELSE "nothing"

\* the resume branch of toggle_pause with the stall test left out
PauseResumeNoStallTest(u, ack_ok, remaining, after) ==
  IF u.current_faults = 0 THEN ResumeMotor(u)
  ELSE IF BitAnd(u.current_faults, CLEARABLE_FAULTS) # 0
    THEN AutoClearFaultsAndResume(u, ack_ok, remaining, after)
  ELSE u

\* the resume branch of toggle_pause (START pressed while paused)
PauseResume(u, ack_ok, remaining, after) ==
  IF ResumeDecision(u.current_faults) = "resume" THEN ResumeMotor(u)
  ELSE IF ResumeDecision(u.current_faults) = "reject"
    THEN [u EXCEPT !.status = "CRITICAL FAULT - FIX REQUIRED"]
  ELSE IF ResumeDecision(u.current_faults) = "clear"
    THEN AutoClearFaultsAndResume(u, ack_ok, remaining, after)
  ELSE u

\* _init_motor: open and handshake once at start-up
InitMotor ==
  /\ ui_flow.handler = "none"
  /\ \E hs_ok \in BOOLEAN :
       LET u == Entered(UiState, "_init_motor")
       IN  SetUi(IF hs_ok THEN [u EXCEPT !.motor_ready = TRUE]
                          ELSE [u EXCEPT !.status = "MOTOR LINK FAIL"])

\* _monitor_faults, its read returning one of R
MonitorFaultsOn(R) ==
  /\ ui_flow.handler # "none"
  /\ \E r \in R :
       LET u == Entered(UiState, "_monitor_faults")
       IN  SetUi(IF ~u.motor_ready THEN u
                 ELSE LET v == ReadFaults(u, r)
                      IN  IF r = << >> THEN v ELSE UpdateFaultDisplay(v, r[1]))

\* _monitor_faults
MonitorFaults == MonitorFaultsOn(FaultReads)

\* toggle_power
TogglePower ==
  /\ ui_flow.handler # "none"
  /\ LET u == Entered(UiState, "toggle_power")
     IN  SetUi(IF ~u.motor_ready THEN u
               ELSE IF ~u.power_on
                 THEN [u EXCEPT !.power_on = TRUE,
                                !.power_default_after =
                                   IF u.current_faults # 0 THEN @ ELSE TRUE]
               ELSE MotorStopSafe([u EXCEPT !.power_on = FALSE,
                                            !.power_default_after = FALSE,
                                            !.system_stalled = FALSE]))

\* _enter_default_after_power, fired by its timer
EnterDefaultAfterPower ==
  /\ power_default_after
  /\ LET u == [Entered(UiState, "_enter_default_after_power")
                 EXCEPT !.power_default_after = FALSE]
     IN  SetUi(IF ~u.power_on THEN u
               ELSE IF u.current_faults # 0 THEN u
               ELSE MotorStartSafe([u EXCEPT !.speed = 40]))

\* toggle_pause, the reads of its acknowledge flow returning values of R
TogglePauseOn(R) ==
  /\ ui_flow.handler # "none"
  /\ \E ack_ok \in BOOLEAN, remaining \in R, after \in R :
       LET u == [Entered(UiState, "toggle_pause")
                   EXCEPT !.power_default_after = FALSE]
       IN  SetUi(IF ~u.power_on THEN u
                 ELSE IF ~u.paused
                   THEN MotorStopSafe(
                          [u EXCEPT !.pre_pause_speed =
                                       IF @ = << >> THEN << u.speed >> ELSE @,
                                    !.paused = TRUE, !.speed = 0])
                 ELSE PauseResume([u EXCEPT !.flow.resuming = TRUE],
                                  ack_ok, remaining, after))

\* toggle_pause
TogglePause == TogglePauseOn(FaultReads)

\* _resume_motor, fired by root.after(500, ...)
ResumeTimer ==
  /\ resume_after
  /\ SetUi(ResumeMotor([Entered(UiState, "_resume_motor")
                          EXCEPT !.resume_after = FALSE]))

UiStep(A) == A /\ UNCHANGED << clientVars, crcVars, hdrVars, durVars, drainVars, scaleVars, fmVars, syncVars, concVars, pilotVars >>

NextUi ==
  \/ UiStep(InitMotor)
  \/ UiStep(MonitorFaults)
  \/ UiStep(TogglePower)
  \/ UiStep(EnterDefaultAfterPower)
  \/ UiStep(TogglePause)
  \/ UiStep(ResumeTimer)

InitUi == ClientInit /\ CrcParked /\ SyncParked /\ HdrParked /\ DurParked /\ DrainParked /\ ScaleParked /\ FmInit /\ UiInit /\ ConcInit /\ PilotInit

SpecUi == InitUi /\ [][NextUi]_vars

\* core/config.py SPEED_PRESETS
SPEED_PRESETS == << 20, 40, 60, 80, 100 >>

\* adjust_speed lines 1055-1060: the preset that follows `current`, or that
\* follows the first preset nearest to it
NextPreset(current) ==
  LET n    == Len(SPEED_PRESETS)
      hits == { i \in 1..n : SPEED_PRESETS[i] = current }
      dist(i) == Abs(SPEED_PRESETS[i] - current)
      near == CHOOSE i \in 1..n :
                /\ \A j \in 1..n : dist(i) <= dist(j)
                /\ \A j \in 1..(i - 1) : dist(j) > dist(i)
      idx  == IF hits # {} THEN CHOOSE i \in hits : TRUE ELSE near
  IN  SPEED_PRESETS[(idx % n) + 1]

\* adjust_speed
AdjustSpeed ==
  /\ ui_flow.handler # "none"
  /\ LET u == Entered(UiState, "adjust_speed")
         current == IF u.paused /\ u.pre_pause_speed # << >>
                      THEN u.pre_pause_speed[1] ELSE u.speed
         new_speed == NextPreset(current)
         v == IF u.paused
                THEN [u EXCEPT !.pre_pause_speed = << new_speed >>]
                ELSE SendSpeedToMotor([u EXCEPT !.speed = new_speed])
     IN  SetUi(IF u.system_stalled \/ ~u.power_on THEN u
               ELSE [v EXCEPT !.status = IF v.current_faults = 0 THEN "" ELSE @])

\* speeds switch_mode sets: 30 for P5, 40 for P0, << >> for a mode that
\* keeps the speed
ModeSpeeds == { << 30 >>, << 40 >>, << >> }

\* switch_mode, the next mode being any of the cycle
SwitchMode ==
  /\ ui_flow.handler # "none"
  /\ \E m \in ModeSpeeds :
       LET u == Entered(UiState, "switch_mode")
           v == [u EXCEPT !.power_default_after = FALSE]
           w == [v EXCEPT !.speed = IF m = << >> THEN @ ELSE m[1]]
           x == IF w.paused THEN w ELSE SendSpeedToMotor(w)
       IN  SetUi(IF u.system_stalled THEN u
                 ELSE IF ~v.power_on THEN v
                 ELSE [x EXCEPT !.status = IF x.current_faults = 0 THEN "" ELSE @])

\* fault reads of the speed and mode scenarios: None, no fault, a clearable
\* fault
FewFaultReads == { << >>, << 0 >>, << 2 >> }

\* the handlers of SpecUi and the speed and mode buttons
NextUiSpeed ==
  \/ UiStep(InitMotor)
  \/ UiStep(MonitorFaultsOn(FewFaultReads))
  \/ UiStep(TogglePower)
  \/ UiStep(EnterDefaultAfterPower)
  \/ UiStep(TogglePauseOn(FewFaultReads))
  \/ UiStep(ResumeTimer)
  \/ UiStep(AdjustSpeed)
  \/ UiStep(SwitchMode)

SpecUiSpeed == InitUi /\ [][NextUiSpeed]_vars

(***************************************************************************)
(* FaultMonitor.update_faults and its queries.                              *)
(***************************************************************************)
\* core/config.py FAULT_NAMES, in the order of the dict
FAULT_NAMES ==
  << << 1, "FOC DURATION" >>, << 2, "OVER VOLTAGE" >>, << 4, "UNDER VOLTAGE" >>,
     << 8, "OVER TEMPERATURE" >>, << 16, "START UP_FAILURE" >>,
     << 32, "SPEED FEEDBACK" >>, << 64, "OVER CURRENT" >>,
     << 128, "SOFTWARE ERROR" >>, << 1024, "DRIVER PROTECTION" >> >>

\* highest bit of the register values enumerated in full
MaxFaultBit == 10

\* register values: every value up to MaxFaultBit, and some with high bits
RegisterValues ==
  0..(TwoTo(MaxFaultBit + 1) - 1)
  \cup { 65536, 65536 + 8, 1048576 + 1024, 1073741824, 1073741824 + 65, 2147483647 }

\* values of the updates that follow the first one
LaterValues == {0, 2, 65, 256, 1023, 1032}

\* a decoding that also lists the bits without a name
ActiveFaultsWithUnnamed(fault_flags) ==
  LET hit == SelectSeq(FAULT_NAMES, LAMBDA e : BitAnd(fault_flags, e[1]) # 0)
  IN  [i \in 1..Len(hit) |-> hit[i][2]]
      \o (IF BitAnd(fault_flags, 768) # 0 THEN << "UNKNOWN" >> ELSE << >>)

\* lines 51-54: the names of the set bits, in table order
ActiveFaults(fault_flags) ==
  LET hit == SelectSeq(FAULT_NAMES, LAMBDA e : BitAnd(fault_flags, e[1]) # 0)
  IN  [i \in 1..Len(hit) |-> hit[i][2]]

\* update_faults(fault_flags)
UpdateFaults(fault_flags) ==
  IF fault_flags = fm_current_faults
  THEN /\ fm_ret' = "False"
       /\ fm_call' = [name |-> "update_faults", arg |-> fault_flags, callbacks |-> 0]
       /\ UNCHANGED << fm_current_faults, fm_active_fault_list, fm_system_stalled,
                       fm_notified >>
  ELSE /\ fm_current_faults' = fault_flags
       /\ fm_ret' = "True"
       /\ fm_call' = [name |-> "update_faults", arg |-> fault_flags, callbacks |-> 1]
       /\ IF fault_flags = 0
          THEN /\ fm_active_fault_list' = << >>
               /\ fm_system_stalled' = FALSE
               /\ fm_notified' = << << >>, "normal" >>
          ELSE /\ fm_active_fault_list' = ActiveFaults(fault_flags)
               /\ fm_system_stalled' = (BitAnd(fault_flags, STALL_FAULTS) # 0)
               /\ fm_notified' = << << fm_active_fault_list' >>, "active" >>

\* the first update of a fresh monitor
FirstUpdate ==
  /\ fm_ret = "none"
  /\ \E v \in RegisterValues : UpdateFaults(v)

\* a later update
LaterUpdate ==
  /\ fm_ret # "none"
  /\ \E v \in LaterValues : UpdateFaults(v)

\* a reset that keeps the list of names
ResetKeepsList ==
  /\ fm_current_faults' = 0
  /\ fm_system_stalled' = FALSE
  /\ fm_call' = [name |-> "reset", arg |-> 0, callbacks |-> 0]
  /\ UNCHANGED << fm_active_fault_list, fm_notified, fm_ret >>

\* reset(): lines 131-137, the callback is not invoked
Reset ==
  /\ fm_current_faults' = 0
  /\ fm_active_fault_list' = << >>
  /\ fm_system_stalled' = FALSE
  /\ fm_call' = [name |-> "reset", arg |-> 0, callbacks |-> 0]
  /\ UNCHANGED << fm_notified, fm_ret >>

is_stalled == fm_system_stalled

has_clearable_faults == BitAnd(fm_current_faults, CLEARABLE_FAULTS) # 0

has_stall_faults == BitAnd(fm_current_faults, STALL_FAULTS) # 0

\* get_fault_message: << >> for "", one "FAULT: name" entry, or rows of
\* numbered entries in two columns
get_fault_message ==
  LET L == fm_active_fault_list
      n == Len(L)
      items_per_col == (n + 2 - 1) \div 2
  IN  IF n = 0 THEN << >>
      ELSE IF n = 1 THEN << << << 0, L[1] >> >> >>
      ELSE [row \in 1..items_per_col |->
              LET idx == SelectSeq(<< row - 1, row - 1 + items_per_col >>,
                                   LAMBDA index : index < n)
              IN  [c \in 1..Len(idx) |-> << idx[c] + 1, L[idx[c] + 1] >>]]

FmStep(A) == A /\ UNCHANGED << clientVars, crcVars, hdrVars, durVars, drainVars, scaleVars, syncVars, uiVars, concVars, pilotVars >>

NextFm ==
  \/ FmStep(FirstUpdate)
  \/ FmStep(LaterUpdate)
  \/ FmStep(Reset)

InitFm == ClientInit /\ CrcParked /\ HdrParked /\ DurParked /\ DrainParked /\ ScaleParked /\ FmInit /\ SyncParked /\ UiInit /\ ConcInit /\ PilotInit

SpecFm == InitFm /\ [][NextFm]_vars

\* the place of a name in the table
TableIndex(name) == CHOOSE i \in 1..Len(FAULT_NAMES) : FAULT_NAMES[i][2] = name

\* the entries of the formatted message
MessageEntries == UNION { { get_fault_message[r][c] : c \in 1..Len(get_fault_message[r]) }
                          : r \in 1..Len(get_fault_message) }

C26_TenFaultsAtOnce ==
  fm_ret # "none" =>
    /\ Len(fm_active_fault_list)
         >= Cardinality({ b \in 0..9 : BitAnd(fm_current_faults, TwoTo(b)) # 0 })
    /\ (fm_current_faults = 1023) =>
         (Len(fm_active_fault_list) = 10 /\ Cardinality(MessageEntries) = 10)

Commands(flow) == { flow.tx[i] : i \in 1..Len(flow.tx) }

\* C4: in the resume flow of toggle_pause a FAULT_ACK is sent only when the
\* fault flags the flow acts on hold no stall bit; with a stall bit set the
\* flow rejects the resume, sends no FAULT_ACK, does not start the motor and
\* schedules no resume.
C4_StallNeverAutoAcknowledged ==
  (ui_flow.handler = "toggle_pause" /\ ui_flow.resuming) =>
     /\ "FAULT_ACK" \in Commands(ui_flow) =>
           BitAnd(ui_flow.acted, STALL_FAULTS) = 0
     /\ BitAnd(ui_flow.acted, STALL_FAULTS) # 0 =>
           /\ ui_flow.tx = << >>
           /\ ~ui_flow.resume_scheduled
           /\ paused
           /\ status = "CRITICAL FAULT - FIX REQUIRED"

\* START was pressed while paused with a stall bit and a clearable bit both
\* set, and the flow refused
C4_Witness ==
  /\ ui_flow.handler = "toggle_pause"
  /\ ui_flow.resuming
  /\ BitAnd(ui_flow.acted, STALL_FAULTS) # 0
  /\ BitAnd(ui_flow.acted, CLEARABLE_FAULTS) # 0
  /\ motor_ready

\* C5: once the acknowledge was issued and the fault register re-read, the
\* value of the last re-read decides what is reported: zero gives "cleared"
\* with the resume scheduled, a stall bit gives the critical-fault rejection
\* with a single acknowledge, anything else gives "condition not fixed", and
\* in the two non-zero cases no resume is scheduled.
C5_OutcomeFollowsReread ==
  (/\ ui_flow.handler = "toggle_pause"
   /\ "FAULT_ACK" \in Commands(ui_flow)
   /\ ui_flow.reread_done
   /\ ui_flow.reread # << >>) =>
     LET r == ui_flow.reread[1]
     IN  IF r = 0
           THEN status = "FAULTS CLEARED" /\ ui_flow.resume_scheduled
         ELSE IF BitAnd(r, STALL_FAULTS) # 0
           THEN /\ status = "CRITICAL FAULT - FIX REQUIRED"
                /\ ~ui_flow.resume_scheduled
                /\ Cardinality({ i \in 1..Len(ui_flow.tx) : ui_flow.tx[i] = "FAULT_ACK" }) = 1
         ELSE status = "CONDITION NOT FIXED" /\ ~ui_flow.resume_scheduled


(***************************************************************************)
(* Callers of the client, thread by thread.  A command exchange is          *)
(* _send_data_command: the header write, the payload write, then the reads  *)
(* of the response; the thread's pc says which of these has happened.       *)
(***************************************************************************)
\* most BLE events posted and not yet handled
MaxPosted == 2

\* handlers Tk's main loop runs from root.after timers
TkTimers == {"_monitor_faults", "_monitor_speed", "update_timer"}

\* handlers handle_button_press runs on the gpiozero thread
ButtonHandlers == {"toggle_power", "toggle_pause", "adjust_speed", "switch_mode"}

\* self._tx(hdr, f"{label}_H") by thread t entering handler h
BeginExchange(t, h) ==
  /\ thr[t].pc = "idle"
  /\ thr' = [thr EXCEPT ![t] = [handler |-> h, pc |-> "header_written"]]

\* a timer fires on the main loop and its handler issues a command
TkTimerFires ==
  /\ \E h \in TkTimers : BeginExchange("tk", h)
  /\ UNCHANGED ble_posted

\* _on_ble_event on the BLE thread: root.after(0, self._handle_ble_event, evt)
BlePost ==
  /\ ble_posted < MaxPosted
  /\ ble_posted' = ble_posted + 1
  /\ UNCHANGED thr

\* the main loop runs a posted _handle_ble_event, which issues a command
TkHandlesBle ==
  /\ ble_posted > 0
  /\ BeginExchange("tk", "_handle_ble_event")
  /\ ble_posted' = ble_posted - 1

\* gpiozero calls _handle_button -> handle_button_press on its own thread,
\* which issues a command whatever the main loop is doing
GpioButton ==
  /\ \E h \in ButtonHandlers : BeginExchange("gpio", h)
  /\ UNCHANGED ble_posted

\* self._tx(payload, f"{label}_P")
WritePayload(t) ==
  /\ thr[t].pc = "header_written"
  /\ thr' = [thr EXCEPT ![t].pc = "awaiting_response"]
  /\ UNCHANGED ble_posted

\* the response handling of _send_data_command returns
ExchangeReturns(t) ==
  /\ thr[t].pc = "awaiting_response"
  /\ thr' = [thr EXCEPT ![t] = IdleThread]
  /\ UNCHANGED ble_posted

ConcStep(A) == A /\ UNCHANGED << clientVars, crcVars, hdrVars, durVars, drainVars, scaleVars, fmVars, syncVars, uiVars, pilotVars >>

NextConc ==
  \/ ConcStep(TkTimerFires)
  \/ ConcStep(BlePost)
  \/ ConcStep(TkHandlesBle)
  \/ ConcStep(GpioButton)
  \/ ConcStep(\E t \in Threads : WritePayload(t))
  \/ ConcStep(\E t \in Threads : ExchangeReturns(t))

InitConc == ClientInit /\ CrcParked /\ SyncParked /\ HdrParked /\ DurParked /\ DrainParked /\ ScaleParked /\ FmInit /\ UiInit /\ ConcInit /\ PilotInit

SpecConc == InitConc /\ [][NextConc]_vars

\* C3: at most one command exchange is in progress on the link at any time,
\* whichever of the callers (button callbacks, BLE events, the fault and
\* speed monitors, the timer) are running.
C3_SingleFlight ==
  Cardinality({ t \in Threads : thr[t].pc # "idle" }) <= 1


(***************************************************************************)
(* Properties of the client.                                                *)
(***************************************************************************)
Labels(tx) == [i \in 1..Len(tx) |-> tx[i].label]

PingNibble(pong) == pong # << >> /\ (pong[1] % 16) = TYPE_PING

\* C1: a command whose deciding packet (first response, response after one
\* SILENT, or a packet of the ACK-then-poll phase) is NACK or ERROR fails, and
\* a speed command all of whose commands were refused by NACK returns failure
\* with last-commanded-speed as it was before the call.
C1_NackYieldsFailure ==
  /\ (xch.phase = "done" /\ xch.lastPkt.type \in {TYPE_NACK, TYPE_ERROR}) => ~xch.ok
  /\ (last.op = "set_speed" /\ last.allNack) =>
        (last.ret = "False" /\ last_speed_ref = last.pre_speed)

\* a speed command went through the three raw shapes and the stepwise
\* fallback, every command refused by NACK, with a speed already recorded
C1_Witness ==
  /\ last.op = "set_speed"
  /\ last.allNack
  /\ last.cmds >= 6
  /\ last.pre_speed # << >>
  /\ last.ret = "False"

\* C2: last-commanded-speed changes only in the step in which a
\* set_speed_auto_ramp call returns success, and then equals that call's
\* target; a call that does not return success leaves it as it was before the
\* call; no other call modifies it.
C2_SpeedCacheOnlyOnSuccess ==
  [][ /\ (last_speed_ref' # last_speed_ref) =>
           /\ op.name = "set_speed"
           /\ op'.name = "idle"
           /\ last'.op = "set_speed"
           /\ last'.ret = "True"
           /\ last_speed_ref' = << last'.target >>
      /\ (op'.name = "idle" /\ last'.op = "set_speed" /\ last'.ret # "True") =>
           last_speed_ref' = last'.pre_speed
      /\ (op'.name = "idle" /\ last'.op \in CommandNames \cup {"handshake"}) =>
           last_speed_ref' = last'.pre_speed
    ]_vars

\* a speed command succeeded through the stepwise fallback and changed the
\* recorded speed to its target
C2_Witness ==
  /\ last.op = "set_speed"
  /\ last.ret = "True"
  /\ last.cmds >= 4
  /\ last_speed_ref = << last.target >>
  /\ last.pre_speed # << >>
  /\ last.pre_speed # last_speed_ref

\* C6: a handshake run from Disconnected whose read after the local beacon
\* gives no valid BEACON (no bytes included) takes the peer capabilities to
\* be the local ones, goes on to send the echo and the PING, and returns what
\* the PING reply decides.
C6_MissingBeaconTolerated ==
  (hs.ran /\ ~hs.pre_connected /\ ~ValidBeacon(hs.perf)) =>
     /\ perf_caps.kind = "alias"
     /\ Labels(hs.tx) = << "BEACON", "ECHO", "PING" >>
     /\ hs.ret = PingNibble(hs.pong)

\* C7: from Disconnected, handshake writes the local beacon, then the echo,
\* then PING, in that order; the client becomes Connected only in a handshake
\* that wrote all three and read a PING reply whose low nibble is 0x6; with
\* the PING reply absent or of another type the handshake fails and the
\* client stays Disconnected.
C7_HandshakeOrder ==
  [][ /\ (connected' # connected) => (op.name = "idle" /\ ~connected /\ hs'.ran)
      /\ (op.name = "idle" /\ ~connected /\ hs'.ran) =>
           /\ Labels(hs'.tx) \in { << "BEACON" >>, << "BEACON", "ECHO", "PING" >> }
           /\ \A i \in 1..Len(hs'.tx) :
                (hs'.tx[i].bytes[1] % 16) = (IF i = 3 THEN TYPE_PING ELSE TYPE_BEACON)
           /\ connected' =>
                /\ Labels(hs'.tx) = << "BEACON", "ECHO", "PING" >>
                /\ hs'.reads = 3
                /\ PingNibble(hs'.pong)
           /\ ~PingNibble(hs'.pong) => (~hs'.ret /\ ~connected')
           /\ hs'.ret = connected'
    ]_vars

\* a handshake from Disconnected ended Connected on a PING reply
C7_Witness ==
  /\ hs.ran
  /\ ~hs.pre_connected
  /\ connected
  /\ hs.reads = 3
  /\ hs.pong = << 22, 0 >>

\* C8: handshake invoked while Connected returns success, writes nothing,
\* reads nothing and leaves the connected flag, the capabilities and every
\* other client field as they were.
C8_HandshakeIdempotent ==
  [][ (op.name = "idle" /\ connected) =>
        /\ connected'
        /\ ctrl_caps' = ctrl_caps
        /\ perf_caps' = perf_caps
        /\ hs'.ret
        /\ hs'.tx = << >>
        /\ hs'.reads = 0
        /\ (last'.op = "handshake") =>
             /\ last'.ret = "True"
             /\ txLog' = << >>
             /\ last_data_payload' = last_data_payload
             /\ last_speed_ref' = last_speed_ref
             /\ acceleration_rpm_s' = acceleration_rpm_s
             /\ op' = op
             /\ xch' = xch
    ]_vars

\* handshake was invoked on a Connected client
C8_Witness ==
  /\ last.op = "handshake"
  /\ hs.ran
  /\ hs.pre_connected
  /\ connected


\* C37: once connected is true it stays true, whatever a command meets
\* (failure, NACK, timeout, no response) and across close(); every
\* handshake() of a later command returns True without writing or reading.
C37_ConnectedIsMonotonic ==
  [][ connected =>
        /\ connected'
        /\ (hs' # hs) => (hs'.ret /\ hs'.pre_connected /\ hs'.tx = << >> /\ hs'.reads = 0)
    ]_vars

\* a command failed on a client that was connected before the call, and
\* the client is still connected
C37_Witness ==
  /\ connected
  /\ last.op = "start_motor"
  /\ last.ret = "False"
  /\ last.cmds = 1
  /\ hs.ran
  /\ hs.pre_connected


(***************************************************************************)
(* Properties of one command exchange.                                      *)
(***************************************************************************)
EmptyAck(pkt) == pkt.type = TYPE_ACK /\ pkt.payload = << >>

Carries(pkt) ==
  pkt.type = TYPE_DATA \/ (pkt.type = TYPE_ACK /\ pkt.payload # << >>)

Refuses(pkt) == pkt.type \in {TYPE_ERROR, TYPE_NACK}

\* C13: an empty ACK as first response of a command that expects data starts
\* the poll; a poll step that reads DATA or an ACK with payload succeeds with
\* that payload, one that reads ERROR or NACK fails, one that reads SILENT
\* changes nothing, and when the poll ends on none of these (the time is up)
\* the command succeeds exactly if allow_ack_only is set, with an empty
\* payload.
C13_AckThenPoll ==
  [][ /\ (xch.phase \in {"first", "second"} /\ xch'.phase # xch.phase
             /\ EmptyAck(xch'.lastPkt) /\ xch.expect_data)
          => xch'.phase = "poll"
      /\ (xch.phase = "poll" /\ xch'.phase = "poll")
          => (last_data_payload' = last_data_payload
                /\ ~Carries(xch'.lastPkt) /\ ~Refuses(xch'.lastPkt))
      /\ (xch.phase = "poll" /\ xch'.phase = "done")
          => LET pkt == xch'.lastPkt
             IN  IF Carries(pkt)
                   THEN xch'.ok /\ last_data_payload' = pkt.payload
                 ELSE IF Refuses(pkt)
                   THEN ~xch'.ok
                 ELSE /\ xch'.ok <=> xch.allow_ack_only
                      /\ xch'.ok => last_data_payload' = << >>
      /\ (xch.phase = "poll" /\ xch'.lastPkt.type = TYPE_SILENT)
          => (xch'.phase = "poll" \/ xch.lastPkt.type = TYPE_SILENT)
    ]_vars

\* request_name polled, skipped a SILENT and ran out of time without
\* allow_ack_only: the command failed
C13_Witness ==
  /\ op.name = "request_name"
  /\ xch.phase = "done"
  /\ xch.expect_data /\ ~xch.allow_ack_only
  /\ xch.lastPkt.type = TYPE_SILENT
  /\ xch.why = "Timeout waiting for DATA"
  /\ ~xch.ok

\* C14: a command that does not expect data and is answered by an empty ACK
\* succeeds, and the payload the client holds after it is empty, whatever
\* earlier commands left there.
C14_FireAndForgetEmptyPayload ==
  (xch.phase = "done" /\ ~xch.expect_data /\ EmptyAck(xch.lastPkt)) =>
     (xch.ok /\ last_data_payload = << >>)

\* what lines 406-427 do with a packet of one of the four answering types
AnswerOutcome(x, ldp, pkt, x2, ldp2) ==
  IF Refuses(pkt) THEN x2.phase = "done" /\ ~x2.ok /\ ldp2 = ldp
  ELSE IF Carries(pkt) THEN x2.phase = "done" /\ x2.ok /\ ldp2 = pkt.payload
  ELSE IF ~x.expect_data THEN x2.phase = "done" /\ x2.ok /\ ldp2 = ldp
  ELSE x2.phase = "poll" /\ ldp2 = ldp

\* C15: a SILENT first packet makes the command read one more packet, and a
\* DATA, ACK, NACK or ERROR packet read after it has the outcome it has as
\* first response.
C15_SilentTransparent ==
  [][ /\ (xch.phase = "first" /\ xch'.phase # "first"
             /\ xch'.lastPkt.type = TYPE_SILENT)
          => (xch'.phase = "second" /\ last_data_payload' = last_data_payload)
      /\ (xch.phase = "second" /\ xch' # xch) => xch'.phase # "second"
      /\ (xch.phase \in {"first", "second"} /\ xch' # xch
             /\ xch'.lastPkt.type \in {TYPE_DATA, TYPE_ACK, TYPE_NACK, TYPE_ERROR})
          => AnswerOutcome(xch, last_data_payload, xch'.lastPkt,
                           xch', last_data_payload')
    ]_vars

\* a read whose first packet was SILENT went on to a DATA packet and
\* returned its payload
C15_Witness ==
  /\ op.name = "read_faults"
  /\ xch.phase = "done"
  /\ xch.after_silent
  /\ xch.ok
  /\ xch.lastPkt.type = TYPE_DATA
  /\ xch.lastPkt.payload # << >>
  /\ last_data_payload = xch.lastPkt.payload


(***************************************************************************)
(* Properties of the speed commands.                                        *)
(***************************************************************************)
IsRaw(l) == \E i \in 1..3 : l = RampLabels[i]

IsInstant(l) == \E i \in 1..3 : l = InstantLabels[i]

\* the positions in the transmit log of the header frames labelled l
HeaderAt(l) == { j \in 1..Len(txLog) : txLog[j].part = "H" /\ txLog[j].label = l }

\* the labels of the speed commands in the transmit log, one per command
SpeedLabels ==
  LET H == SelectSeq(txLog, LAMBDA f : f.part = "H" /\ (IsRaw(f.label) \/ IsInstant(f.label)))
  IN  [i \in 1..Len(H) |-> H[i].label]

\* each raw shape is sent at most once, shape i+1 only after shape i, and no
\* register write goes out before all three shapes went out
SpeedLogOrdered ==
  /\ \A i \in 1..3 : Cardinality(HeaderAt(RampLabels[i])) <= 1
  /\ \A i \in 2..3 : \A j \in HeaderAt(RampLabels[i]) :
        \E k \in HeaderAt(RampLabels[i - 1]) : k < j
  /\ \A j \in 1..Len(txLog) :
        (txLog[j].part = "H" /\ IsInstant(txLog[j].label))
          => \A i \in 1..3 : \E k \in HeaderAt(RampLabels[i]) : k < j

\* C16: set_speed_ramp_raw sends its shapes in the order 1, 2, 3, never more
\* than three, sends shape i+1 only after shape i failed and nothing after a
\* shape that succeeded, and stepwise register writes start only after shape
\* 3 failed.
C16_RawRampProbeChain ==
  [][ /\ SpeedLogOrdered'
      /\ (op.name = "set_speed" /\ op.stage = "raw" /\ op'.name = "idle")
          => (xch.ok /\ txLog' = txLog /\ last'.ret = "True")
      /\ (op.name = "set_speed" /\ op.stage = "raw" /\ op'.name = "set_speed"
             /\ op' # op)
          => (xch.phase = "done" /\ ~xch.ok
                /\ IF op.i < 3 THEN op'.stage = "raw" /\ op'.i = op.i + 1
                               ELSE op'.stage = "step")
    ]_vars

\* a speed command went through shapes 1, 2, 3 and then set the speed by a
\* register write
C16_Witness ==
  /\ last.op = "set_speed"
  /\ last.ret = "True"
  /\ Len(SpeedLabels) = 4
  /\ SubSeq(SpeedLabels, 1, 3) = RampLabels
  /\ IsInstant(SpeedLabels[4])

\* motor indices of the claim about the raw-ramp shapes
MotorIndices == 0..7

\* C17: the three payloads set_speed_ramp_raw builds for the target and the
\* duration of the speed command in progress are pairwise different, for
\* every motor index 0..7.
C17_ShapesPairwiseDifferent ==
  (op.name = "set_speed" /\ op.stage = "raw")
    => \A m \in MotorIndices :
          LET F == RampFormats(op.target, op.dur, m)
          IN  F[1] # F[2] /\ F[2] # F[3] /\ F[1] # F[3]

\* C19: a speed command on a connected client whose target equals the last
\* commanded speed (unset counting as 0) returns True, writes nothing and
\* leaves every field of the client as it was.
C19_UnchangedSpeedIsNoOp ==
  [][ (/\ op.name = "idle"
       /\ connected
       /\ \/ op'.name = "set_speed" /\ op'.target = OrZero(last_speed_ref)
          \/ /\ op'.name = "idle"
             /\ last'.op = "set_speed"
             /\ last' # last
             /\ last'.target = OrZero(last_speed_ref))
      => (/\ op'.name = "idle"
          /\ last'.ret = "True"
          /\ txLog' = << >>
          /\ last'.cmds = 0
          /\ UNCHANGED << connected, ctrl_caps, perf_caps, last_data_payload,
                          last_speed_ref, acceleration_rpm_s >>)
    ]_vars

\* speed 0 was commanded on a connected client that never set a speed
C19_Witness ==
  /\ connected
  /\ op.name = "idle"
  /\ last.op = "set_speed"
  /\ last.target = 0
  /\ last.ret = "True"
  /\ last_speed_ref = << >>
  /\ txLog = << >>


\* C21: every call of set_speed_auto_ramp returns True or False, whatever
\* the target, the last commanded speed and the acceleration are.
C21_SpeedNeverRaises ==
  last.op = "set_speed" => last.ret \in {"True", "False"}

(***************************************************************************)
(* Properties of fault_acknowledge.                                         *)
(***************************************************************************)
\* C20: every call of fault_acknowledge returns True or False, whatever the
\* answers to FAULT_ACK and to the verification read were.
C20_FaultAckNeverRaises ==
  last.op = "fault_acknowledge" => last.ret \in {"True", "False"}


(***************************************************************************)
(* Properties of the capabilities across a handshake.                       *)
(***************************************************************************)
\* the limits a beacon carries
Limits(caps) == << caps.rx_max, caps.txs_max, caps.txa_max >>

\* the capabilities a 4-byte beacon decodes to
DecodedCaps(bytes) == from_lower28(Lower28(FromBytesLE(bytes)))

\* the element-wise minimum of two triples of limits
MinLimits(a, b) == [i \in 1..3 |-> Min(a[i], b[i])]

\* C23: after a handshake that read a valid BEACON, rx_max, txs_max and
\* txa_max of the client are the minimum of their value before the handshake
\* and the value decoded from that beacon; after a handshake that read
\* anything else, or nothing, they are what they were.
C23_CapsAreElementwiseMin ==
  [][ (op.name = "idle" /\ ~connected /\ hs'.ran) =>
        Limits(ctrl_caps') =
          IF ValidBeacon(hs'.perf)
          THEN MinLimits(Limits(ctrl_caps), Limits(DecodedCaps(hs'.perf)))
          ELSE Limits(ctrl_caps)
    ]_vars

\* a handshake read the beacon of a peer with a smaller rx_max and a larger
\* txa_max than the client's
C23_Witness ==
  /\ hs.ran
  /\ ~hs.pre_connected
  /\ ValidBeacon(hs.perf)
  /\ Limits(DecodedCaps(hs.perf)) = << 16, 7, 2 >>
  /\ Limits(ctrl_caps) = << 16, 7, 1 >>

\* C24: the beacon echoed in the second step of the handshake carries the
\* negotiated limits, which are the limits of the client once the handshake
\* has run.
C24_EchoIsNegotiated ==
  (hs.ran /\ Len(hs.tx) >= 2) =>
     Limits(DecodedCaps(hs.tx[2].bytes)) = Limits(ctrl_caps)

\* C29: a handshake that returns False leaves rx_max, txs_max and txa_max of
\* the client as they were before it.
C29_CapsKeptOnFailure ==
  [][ (op.name = "idle" /\ ~connected /\ hs'.ran /\ ~hs'.ret) =>
        Limits(ctrl_caps') = Limits(ctrl_caps)
    ]_vars


WrittenOnce(log, x) ==
  LET n == Len(log)
      k == IF x.payload = << >> THEN 1 ELSE 2
  IN  /\ n >= k
      /\ log[n - k + 1] = [label |-> x.label, part |-> "H",
                           bytes |-> build_data_header(Len(x.payload))]
      /\ k = 2 => log[n] = [label |-> x.label, part |-> "P", bytes |-> x.payload]
      /\ \A i \in 1..(n - k) : log[i].label # x.label

\* C30: a command in progress or just finished has written its header once
\* and then its payload once, both before its first read, and nothing is
\* written while it reads, whatever the peer answers.
C30_NoRetryInsideCommand ==
  [][ /\ xch'.phase # "idle" => WrittenOnce(txLog', xch')
      /\ xch.phase \in {"first", "second", "poll"} => txLog' = txLog
    ]_vars

\* a command that failed on a NACK read after a SILENT, its frames written
\* once
C30_Witness ==
  /\ xch.phase = "done"
  /\ ~xch.ok
  /\ xch.after_silent
  /\ xch.lastPkt # NoPacket
  /\ xch.lastPkt.type = TYPE_NACK
  /\ WrittenOnce(txLog, xch)


(***************************************************************************)
(* Properties of the stepwise fallback.                                     *)
(***************************************************************************)
\* the positions in the transmit log of the register writes' payloads
InstantWrites ==
  { j \in 1..Len(txLog) : txLog[j].part = "P" /\ IsInstant(txLog[j].label) }

\* the setpoint carried by the payload at position j
SetpointAt(j) ==
  I32Value(SubSeq(txLog[j].bytes, Len(txLog[j].bytes) - 3, Len(txLog[j].bytes)))

\* the speed the call in progress, or the last call, started from
CallCurrent == OrZero(IF op.name = "set_speed" THEN op.pre_speed ELSE last.pre_speed)

\* the target of the call in progress, or of the last call
CallTarget == IF op.name = "set_speed" THEN op.target ELSE last.target

\* the setpoints written so far step from the current speed toward the
\* target, by STEP_SIZE at most, without passing it
StepwiseShape ==
  \E W \in {InstantWrites} :
  \E cur \in {CallCurrent} :
  \E target \in {CallTarget} :
    \A j \in W :
      \E sp \in {SetpointAt(j)} :
        /\ Abs(sp - cur) + Abs(target - sp) = Abs(target - cur)
        /\ \A i \in W :
             i < j =>
               /\ Abs(target - sp) <= Abs(target - SetpointAt(i))
               /\ (\A h \in W : ~(i < h /\ h < j))
                    => Abs(sp - SetpointAt(i)) <= STEP_SIZE
        /\ (\A i \in W : i >= j) => Abs(sp - cur) <= STEP_SIZE

\* the last setpoint written
LastSetpoint ==
  SetpointAt(CHOOSE j \in InstantWrites : \A i \in InstantWrites : i <= j)

\* C31: the setpoints _set_speed_stepwise writes move from the current
\* speed toward the target, each at most step_size from the one before (the
\* first from the current speed), none beyond the target; when every write
\* succeeds the last one written is the target, and the first write that
\* fails ends the call with False and nothing more written.
C31_StepwiseShape ==
  [][ /\ (op'.name = "set_speed" \/ last'.op = "set_speed") => StepwiseShape'
      /\ (op.name = "set_speed" /\ op.stage = "step" /\ op'.name = "idle")
           => /\ txLog' = txLog
              /\ IF xch.ok
                 THEN last'.ret = "True" /\ LastSetpoint = op.target
                 ELSE last'.ret = "False" /\ op.i = NFORMATS
      /\ (op.name = "set_speed" /\ op.stage = "step" /\ xch.phase = "done"
            /\ ~xch.ok /\ op.i = NFORMATS /\ op' # op)
           => op'.name = "idle" /\ last'.ret = "False"
    ]_vars

\* a stepwise transition of three setpoints that reached the target
C31_Witness ==
  /\ last.op = "set_speed"
  /\ last.ret = "True"
  /\ Cardinality(InstantWrites) >= 3
  /\ Cardinality({ SetpointAt(j) : j \in InstantWrites }) = 3
  /\ LastSetpoint = last.target


\* C34: when a speed call returns, _last_speed_ref is the setpoint of the
\* last speed write the controller acknowledged: the target after a raw
\* ramp or a final register write that succeeded, the last intermediate
\* setpoint that succeeded when a later stepwise write failed, and the
\* value from before the call when no write of the call succeeded.
C34_LastSpeedIsLastAcknowledged ==
  [][ (op.name = "set_speed" /\ op.stage \in {"raw", "step"} /\ op'.name = "idle")
        => last_speed_ref' =
             IF xch.ok THEN << op.target >>
             ELSE IF op.stage = "step" /\ op.k > 0
               THEN << Setpoint(op.cur, op.target, op.steps, op.k - 1) >>
             ELSE last_speed_ref
    ]_vars


(***************************************************************************)
(* Properties of the speed reading.                                         *)
(***************************************************************************)
\* C35: read_speed yields a value only when the speed poll it has just
\* sent succeeded with a payload of at least 4 bytes, and then the value of
\* that payload; when the poll fails it yields None, whatever an earlier
\* command left in last_data_payload.
C35_SpeedFromOwnPoll ==
  [][ (op.name = "read_speed" /\ op'.name = "idle")
        => IF xch.ok /\ Len(last_data_payload) >= 4
           THEN last'.ret = "value" /\ last'.val = << I32Value(last_data_payload) >>
           ELSE last'.ret = "None"
    ]_vars


(***************************************************************************)
(* Termination of one command.                                              *)
(***************************************************************************)
\* C32: every invocation of _send_data_command ends with success or
\* failure, whatever packets the peer sends, also when it answers with an
\* empty ACK and then only SILENT packets or nothing.
C32_CommandTerminates ==
  (xch.phase \in {"first", "second", "poll"}) ~> (xch.phase = "done")

\* a command that was answered by an empty ACK, then read SILENT packets
\* only, ended on its deadline
C32_Witness ==
  /\ xch.phase = "done"
  /\ xch.expect_data
  /\ xch.why \in {"Timeout waiting for DATA", "ACK only"}
  /\ xch.lastPkt # NoPacket
  /\ xch.lastPkt.type = TYPE_SILENT


(***************************************************************************)
(* Properties of the UI's motor start.                                      *)
(***************************************************************************)
\* the read of the fault register made last returned a non-zero value
LastReadNonZero(flow) ==
  /\ flow.last_read # << >>
  /\ flow.last_read[1] # << >>
  /\ flow.last_read[1][1] # 0

\* C33: no handler transmits START_MOTOR when the most recent read of the
\* fault register, by the periodic poll or by the verification after an
\* acknowledge, returned a non-zero value.
C33_NoStartAfterNonZeroRead ==
  [][ ("START_MOTOR" \in Commands(ui_flow') /\ ui_flow'.handler # "_monitor_faults")
        => ~LastReadNonZero(ui_flow) ]_vars

\* C36: no handler transmits a speed command when the most recent read of
\* the fault register returned a non-zero value.
C36_NoSpeedAfterNonZeroRead ==
  [][ ("SET_SPEED" \in Commands(ui_flow') /\ ui_flow'.handler # "_monitor_faults")
        => ~LastReadNonZero(ui_flow) ]_vars


(***************************************************************************)
(* Properties of SILENT packets in a command.                              *)
(***************************************************************************)
\* C40: a SILENT read as the first packet is skipped once; a SILENT read
\* right after it ends the command as a failure, with no further read and
\* the payload buffer untouched; a SILENT read in the ACK-then-poll loop
\* leaves the loop running, which only data_timeout ends.
C40_SilentSkippedOnce ==
  [][ (xch' # xch /\ xch'.lastPkt # NoPacket /\ xch'.lastPkt.type = TYPE_SILENT) =>
        CASE xch.phase = "first" ->
               xch'.phase = "second"
          [] xch.phase = "second" ->
               /\ xch'.phase = "done"
               /\ ~xch'.ok
               /\ last_data_payload' = last_data_payload
          [] xch.phase = "poll" ->
               \/ xch'.phase = "poll"
               \/ /\ xch'.phase = "done"
                  /\ xch'.why \in {"ACK only", "Timeout waiting for DATA"}
          [] OTHER -> TRUE
    ]_vars

\* two SILENT packets were read after the command and it failed
C40_Witness ==
  /\ xch.phase = "done"
  /\ xch.after_silent
  /\ xch.lastPkt # NoPacket
  /\ xch.lastPkt.type = TYPE_SILENT
  /\ ~xch.ok
  /\ xch.why = "Unexpected type"

(***************************************************************************)
(* AdaptiveMotorPilot: handshake, ensure_link and request_name.            *)
(***************************************************************************)
\* depth at which the interpreter raises RecursionError
\* (sys.getrecursionlimit(), 1000 unless changed)
RecursionLimit == 100

BEACON_INIT == << 21, 199, 1, 148 >>
BEACON_ECHO == << 5, 199, 1, 20 >>
REQ_NAME == << 73, 0, 0, 112, 17, 0, 225, 0 >>

\* what _collect can return to the handshake
PilotReplies == { << >>, BEACON_ECHO, << 54, 0, 0, 144 >> }

\* what _collect can return to the name request: nothing, an acknowledge
\* alone, a name, a name behind blanks, blanks only
NameReplies ==
  { << >>,
    << 26, 0, 0, 32, 0 >>,
    << 26, 0, 0, 32, 74, 69, 84, 0, 0, 1 >>,
    << 26, 0, 0, 32, 32, 74, 0, 0 >>,
    << 26, 0, 0, 32, 32, 32, 0, 0 >> }

\* r[:n]
Prefix(r, n) == SubSeq(r, 1, Min(n, Len(r)))

\* _send_frame with retry: rx1 is what the first write collects, rx2 what the
\* retry collects
SendFrame(rx1, rx2, min_resp) ==
  IF Len(rx1) < min_resp
  THEN [rx |-> rx2, writes |-> 2]
  ELSE [rx |-> rx1, writes |-> 1]

\* handshake(), lines 115-129, on a link that is not connected
PilotHandshake(r1, r2, r3) ==
  /\ Len(r1) >= 4
  /\ Prefix(r1, 4) = BEACON_ECHO
  /\ Prefix(r2, 4) = BEACON_ECHO
  /\ Len(r3) >= 4

\* payload.split(b"\x00\x00")[0]
FirstSegment(payload) ==
  LET cuts == { i \in 1..(Len(payload) - 1) : payload[i] = 0 /\ payload[i + 1] = 0 }
  IN  IF cuts = {} THEN payload
      ELSE SubSeq(payload, 1, (CHOOSE i \in cuts : \A j \in cuts : i <= j) - 1)

PyWhitespace == {9, 10, 11, 12, 13, 28, 29, 30, 31, 32}

\* seg.decode(errors="ignore").strip(), for ASCII replies
DecodeStrip(seg) ==
  LET text == SelectSeq(seg, LAMBDA b : b < 128)
      keep == { i \in 1..Len(text) : text[i] \notin PyWhitespace }
  IN  IF keep = {} THEN << >>
      ELSE SubSeq(text, CHOOSE i \in keep : \A j \in keep : i <= j,
                        CHOOSE i \in keep : \A j \in keep : i >= j)

PilotTop == ap_stack[Len(ap_stack)]

\* a method returns value: to its caller, or out of the outermost call
PilotReturn(value, call) ==
  IF Len(ap_stack) = 1
  THEN /\ ap_stack' = << >>
       /\ ap_ret' = << >>
       /\ ap_last' = [call EXCEPT !.ret = value]
  ELSE /\ ap_stack' = SubSeq(ap_stack, 1, Len(ap_stack) - 1)
       /\ ap_ret' = value
       /\ ap_last' = call

\* a method calls callee and will go on at pc; at the recursion limit the
\* call raises RecursionError, which no frame catches
PilotInvoke(pc, callee, call) ==
  /\ ap_ret' = << >>
  /\ IF Len(ap_stack) >= RecursionLimit
     THEN /\ ap_stack' = << >>
          /\ ap_last' = [call EXCEPT !.ret = << "RecursionError" >>]
     ELSE /\ ap_stack' = [ap_stack EXCEPT ![Len(ap_stack)].pc = pc]
                           \o << [fn |-> callee, pc |-> "enter"] >>
          /\ ap_last' = call

\* ctl.handshake() called from outside, as main() does
CallPilotHandshake ==
  /\ ap_stack = << >>
  /\ \E r \in IF ap_connected THEN { << << >>, << >>, << >> >> }
              ELSE PilotReplies \X PilotReplies \X PilotReplies :
       LET ok == ap_connected \/ PilotHandshake(r[1], r[2], r[3])
       IN  /\ ap_connected' = ok
           /\ ap_last' = [NoPilotCall EXCEPT !.fn = "handshake",
                             !.ret = << IF ok THEN "True" ELSE "False" >>,
                             !.connected = ap_connected,
                             !.cached = (ap_name_cached # << >>)]
  /\ UNCHANGED << ap_name_cached, ap_stack, ap_ret >>

\* request_name() or ensure_link() called from outside
PilotCall(fn) ==
  /\ ap_stack = << >>
  /\ ap_stack' = << [fn |-> fn, pc |-> "enter"] >>
  /\ ap_ret' = << >>
  /\ ap_last' = [NoPilotCall EXCEPT !.fn = fn, !.connected = ap_connected,
                    !.cached = (ap_name_cached # << >>)]
  /\ UNCHANGED << ap_connected, ap_name_cached >>

\* ensure_link, lines 133-140: open, handshake, the priming name request
EnsureLinkEnter ==
  /\ ap_stack # << >>
  /\ PilotTop = [fn |-> "ensure_link", pc |-> "enter"]
  /\ \E r \in IF ap_connected THEN { << << >>, << >>, << >> >> }
              ELSE PilotReplies \X PilotReplies \X PilotReplies :
       LET ok == ap_connected \/ PilotHandshake(r[1], r[2], r[3])
       IN  /\ ap_connected' = ok
           /\ IF ~ok THEN PilotReturn(<< "False" >>, ap_last)
              ELSE IF ap_name_cached = << >>
                   THEN PilotInvoke("after_name", "request_name",
                                    [ap_last EXCEPT !.requests = @ + 1])
                   ELSE PilotReturn(<< "True" >>, ap_last)
  /\ UNCHANGED ap_name_cached

\* ensure_link, lines 141-143: after the name request returned
EnsureLinkResume ==
  /\ ap_stack # << >>
  /\ PilotTop = [fn |-> "ensure_link", pc |-> "after_name"]
  /\ ap_ret # << >>
  /\ PilotReturn(<< "True" >>, ap_last)
  /\ UNCHANGED << ap_connected, ap_name_cached >>

\* request_name, line 146: the call of ensure_link
RequestNameEnter ==
  /\ ap_stack # << >>
  /\ PilotTop = [fn |-> "request_name", pc |-> "enter"]
  /\ PilotInvoke("after_link", "ensure_link", ap_last)
  /\ UNCHANGED << ap_connected, ap_name_cached >>

\* request_name, lines 146-161: after ensure_link returned
RequestNameResume ==
  /\ ap_stack # << >>
  /\ PilotTop = [fn |-> "request_name", pc |-> "after_link"]
  /\ ap_ret # << >>
  /\ IF ap_ret = << "False" >>
     THEN /\ PilotReturn(<< "None" >>, ap_last)
          /\ UNCHANGED ap_name_cached
     ELSE \E rx1 \in NameReplies, rx2 \in NameReplies :
            LET f == SendFrame(rx1, rx2, 8)
                r == f.rx
                call == [ap_last EXCEPT !.sent = @ + f.writes]
                name == DecodeStrip(FirstSegment(SubSeq(r, 5, Len(r))))
            IN  IF Len(r) >= 6
                THEN /\ ap_name_cached' = IF name # << >> THEN << name >>
                                          ELSE ap_name_cached
                     /\ PilotReturn(<< "name", name >>, call)
                ELSE /\ PilotReturn(<< "None" >>, call)
                     /\ UNCHANGED ap_name_cached
  /\ UNCHANGED ap_connected

\* a callee has returned and its caller goes on
PilotResume ==
  /\ ap_stack # << >>
  /\ IF PilotTop.fn = "ensure_link" THEN EnsureLinkResume ELSE RequestNameResume

PilotStep(A) == A /\ UNCHANGED << clientVars, crcVars, hdrVars, durVars, drainVars, scaleVars, fmVars, syncVars, uiVars, concVars >>

NextPilot ==
  \/ PilotStep(CallPilotHandshake)
  \/ PilotStep(\E fn \in {"request_name", "ensure_link"} : PilotCall(fn))
  \/ PilotStep(EnsureLinkEnter)
  \/ PilotStep(RequestNameEnter)
  \/ PilotStep(PilotResume)

InitPilot == ClientInit /\ CrcParked /\ SyncParked /\ HdrParked /\ DurParked /\ DrainParked /\ ScaleParked /\ FmInit /\ UiInit /\ ConcInit /\ PilotInit

SpecPilot == InitPilot /\ [][NextPilot]_vars

\* C39: a request_name() called on a connected pilot without a cached name
\* ends by returning a name or None after writing REQ_NAME at most twice, and
\* an ensure_link() ends by returning after at most one name request.
C39_RequestNameReturns ==
  (ap_stack = << >>) =>
    /\ (ap_last.fn = "request_name" /\ ap_last.connected /\ ~ap_last.cached) =>
         /\ ap_last.ret[1] \in {"name", "None"}
         /\ ap_last.sent <= 2
    /\ (ap_last.fn = "ensure_link") =>
         /\ ap_last.ret[1] \in {"True", "False"}
         /\ ap_last.requests <= 1

(***************************************************************************)
(* Properties of the fault monitor's state.                                *)
(***************************************************************************)
FmConsistent ==
  /\ fm_active_fault_list = ActiveFaults(fm_current_faults)
  /\ fm_system_stalled = (BitAnd(fm_current_faults, STALL_FAULTS) # 0)

\* C38: after every update_faults and reset, active_fault_list is the
\* decoding of current_faults and system_stalled is
\* (current_faults & STALL_FAULTS) != 0; update_faults with a value that
\* differs from current_faults invokes on_fault_changed once and returns
\* True, with the same value it returns False, invokes no callback and
\* changes no field.
C38_FaultMonitorConsistent ==
  [][ /\ FmConsistent'
      /\ (fm_call'.name = "update_faults") =>
           IF fm_call'.arg # fm_current_faults
           THEN /\ fm_ret' = "True"
                /\ fm_call'.callbacks = 1
                /\ fm_current_faults' = fm_call'.arg
           ELSE /\ fm_ret' = "False"
                /\ fm_call'.callbacks = 0
                /\ UNCHANGED << fm_current_faults, fm_active_fault_list,
                                fm_system_stalled, fm_notified >>
    ]_vars

\* a reset after a stall fault had been reported: the fields are cleared,
\* the callback's last arguments are still those of the fault
C38_Witness ==
  /\ fm_call.name = "reset"
  /\ fm_ret = "True"
  /\ fm_notified = << << << "OVER TEMPERATURE", "DRIVER PROTECTION" >> >>, "active" >>
  /\ fm_current_faults = 0
  /\ fm_active_fault_list = << >>
  /\ ~fm_system_stalled

=============================================================================
